---- MODULE Spec2Model ----
(***************************************************************************)
(* Model of the journal application's content-analysis endpoint            *)
(* (POST /api/ai-analysis) and of the three text functions it composes:    *)
(* analyzeSentiment, suggestCategories and extractThemes.                  *)
(*                                                                         *)
(* A JavaScript string is a sequence of one-character strings, so that     *)
(* lower-casing, the regular expressions, trimming, splitting and the      *)
(* substring test are computed character by character.  A number with two  *)
(* decimals (the result of toFixed(2)) is an integer count of hundredths.  *)
(***************************************************************************)
EXTENDS Integers, Sequences, FiniteSets, TLC

VARIABLES
  text,        \* the string handed to the text functions
  sentiment,   \* <<>> or <<r>>: r the value analyzeSentiment returned
  themes,      \* <<>> or <<r>>: r the value extractThemes returned
  suggestions, \* <<>> or <<r>>: r the outcome of suggestCategories
  categories,  \* the rows of the Category table, in the order findMany yields
  request,     \* <<>> or <<r>>: r the last request POST /api/ai-analysis received
  response,    \* <<>> or <<r>>: r the response it was given
  io,          \* the reads the handler performed for that request, in order
  again,       \* <<>> or <<r>>: r compares that request with the one before it
  tally,       \* <<>> or <<r>>: r the word counts taken of text
  users,       \* the rows of the User table
  journals,    \* the rows of the Journal table
  tags,        \* the names of the rows of the Tag table
  links,       \* the rows of TagsOnJournals
  reply,       \* <<>> or <<r>>: r the last request to a data route and its response
  calls,       \* the requests a data route handles step by step, in order of arrival
  form         \* <<>> or <<f>>: f the state of the new-journal page

\* the tables other than Category, the last response of a data route, the
\* requests in progress and the page
dataVars == <<users, journals, tags, links, reply, calls, form>>

vars ==
  <<text, sentiment, themes, suggestions, categories, request, response, io, again,
    tally, dataVars>>

\* no user, journal or tag is stored, no data route was called and no page is open
NoData ==
  /\ users = {}
  /\ journals = {}
  /\ tags = {}
  /\ links = {}
  /\ reply = <<>>
  /\ calls = <<>>
  /\ form = <<>>

----------------------------------------------------------------------------
(* Bounds of the inputs. *)

\* longest text, in pieces of TextPieces
MaxPieces == 3
\* largest number of repetitions of a unit in a long text
MaxRepeat == 102
\* number of rows the Category table may hold
MaxCats == 5

\* the most rows the Journal table gets
MaxJournals == 2

\* the most requests one run lets a data route handle step by step
MaxCalls == 2

\* the most analysis requests the new-journal page sends in one run
MaxSends == 2

----------------------------------------------------------------------------
(* Characters. *)

LowerLetters ==
  {"a","b","c","d","e","f","g","h","i","j","k","l","m",
   "n","o","p","q","r","s","t","u","v","w","x","y","z"}

UpperToLower ==
  [A |-> "a", B |-> "b", C |-> "c", D |-> "d", E |-> "e", F |-> "f", G |-> "g",
   H |-> "h", I |-> "i", J |-> "j", K |-> "k", L |-> "l", M |-> "m", N |-> "n",
   O |-> "o", P |-> "p", Q |-> "q", R |-> "r", S |-> "s", T |-> "t", U |-> "u",
   V |-> "v", W |-> "w", X |-> "x", Y |-> "y", Z |-> "z"]

Digits == {"0","1","2","3","4","5","6","7","8","9"}

\* \w of a regular expression without the u flag: [A-Za-z0-9_]
IsWordChar(c) == c \in LowerLetters \cup DOMAIN UpperToLower \cup Digits \cup {"_"}

\* \s, restricted to the white space the inputs contain
IsSpace(c) == c \in {" ", "\t", "\n"}

LowerChar(c) == IF c \in DOMAIN UpperToLower THEN UpperToLower[c] ELSE c

\* s.toLowerCase(), for the letters A-Z
toLowerCase(s) == SubSeq([i \in 1..Len(s) |-> LowerChar(s[i])], 1, Len(s))

\* The matches of /\b\w+\b/g among the characters lo..hi of s: the maximal runs
\* of word characters, in order.  The two halves are matched apart, and a run
\* that crosses the middle is joined.
RECURSIVE MatchWordsIn(_, _, _)
MatchWordsIn(s, lo, hi) ==
  IF lo > hi THEN <<>>
  ELSE IF lo = hi THEN (IF IsWordChar(s[lo]) THEN <<<<s[lo]>>>> ELSE <<>>)
  ELSE LET mid == (lo + hi) \div 2
           l == MatchWordsIn(s, lo, mid)
           r == MatchWordsIn(s, mid + 1, hi)
       IN  IF IsWordChar(s[mid]) /\ IsWordChar(s[mid + 1])
           THEN SubSeq(l, 1, Len(l) - 1) \o <<l[Len(l)] \o r[1]>> \o Tail(r)
           ELSE l \o r

\* s.match(/\b\w+\b/g) || []
MatchWords(s) == MatchWordsIn(s, 1, Len(s))

\* s.includes(t)
Includes(s, t) ==
  \E i \in 0..(Len(s) - Len(t)) : \A j \in 1..Len(t) : s[i + j] = t[j]

----------------------------------------------------------------------------
(* Rounding: parseFloat(x.toFixed(2)) for x = num / den with den > 0, as a  *)
(* count of hundredths.  toFixed rounds the magnitude to the nearest        *)
(* hundredth, a tie going to the larger magnitude.                          *)

Abs(n) == IF n < 0 THEN 0 - n ELSE n

ToFixed2(num, den) ==
  LET mag == (200 * Abs(num) + den) \div (2 * den)
  IN  IF num < 0 THEN 0 - mag ELSE mag

----------------------------------------------------------------------------
(* analyzeSentiment *)

positiveWords ==
  {<<"h","a","p","p","y">>, <<"j","o","y">>, <<"e","x","c","i","t","e","d">>, <<"g","r","e","a","t">>,
   <<"w","o","n","d","e","r","f","u","l">>, <<"a","m","a","z","i","n","g">>, <<"g","o","o","d">>,
   <<"e","x","c","e","l","l","e","n","t">>, <<"f","a","n","t","a","s","t","i","c">>, <<"l","o","v","e">>,
   <<"l","o","v","e","d">>, <<"b","e","a","u","t","i","f","u","l">>, <<"g","r","a","t","e","f","u","l">>,
   <<"t","h","a","n","k","f","u","l">>, <<"a","p","p","r","e","c","i","a","t","e">>,
   <<"o","p","t","i","m","i","s","t","i","c">>, <<"p","o","s","i","t","i","v","e">>,
   <<"p","r","o","u","d">>, <<"a","c","c","o","m","p","l","i","s","h","e","d">>,
   <<"s","u","c","c","e","s","s">>, <<"p","e","a","c","e","f","u","l">>, <<"r","e","l","a","x","e","d">>,
   <<"c","a","l","m">>, <<"h","o","p","e","f","u","l">>, <<"i","n","s","p","i","r","e","d">>,
   <<"b","l","e","s","s","e","d">>, <<"f","u","n">>, <<"e","n","j","o","y","e","d">>,
   <<"s","m","i","l","e">>, <<"p","l","e","a","s","e","d">>}

negativeWords ==
  {<<"s","a","d">>, <<"a","n","g","r","y">>, <<"u","p","s","e","t">>,
   <<"f","r","u","s","t","r","a","t","e","d">>, <<"d","i","s","a","p","p","o","i","n","t","e","d">>,
   <<"h","a","t","e">>, <<"t","e","r","r","i","b","l","e">>, <<"h","o","r","r","i","b","l","e">>,
   <<"a","w","f","u","l">>, <<"b","a","d">>, <<"w","o","r","r","i","e","d">>,
   <<"a","n","x","i","o","u","s">>, <<"s","t","r","e","s","s","e","d">>,
   <<"d","e","p","r","e","s","s","e","d">>, <<"m","i","s","e","r","a","b","l","e">>,
   <<"u","n","h","a","p","p","y">>, <<"a","n","n","o","y","e","d">>, <<"f","e","a","r">>,
   <<"s","c","a","r","e","d">>, <<"t","i","r","e","d">>, <<"e","x","h","a","u","s","t","e","d">>,
   <<"l","o","n","e","l","y">>, <<"h","u","r","t">>, <<"p","a","i","n">>, <<"s","o","r","r","y">>,
   <<"r","e","g","r","e","t">>, <<"g","u","i","l","t","y">>, <<"a","s","h","a","m","e","d">>,
   <<"l","o","s","t">>, <<"c","o","n","f","u","s","e","d">>, <<"o","v","e","r","w","h","e","l","m","e","d">>}

VeryPositive == <<"V","e","r","y"," ","P","o","s","i","t","i","v","e">>
Positive == <<"P","o","s","i","t","i","v","e">>
Neutral == <<"N","e","u","t","r","a","l">>
Negative == <<"N","e","g","a","t","i","v","e">>
VeryNegative == <<"V","e","r","y"," ","N","e","g","a","t","i","v","e">>

CountIn_Containing(ws, S) ==
  Cardinality({i \in 1..Len(ws) : \E w \in S : Includes(ws[i], w)})

\* the number of positions of the sequence ws whose word belongs to S
CountIn(ws, S) == Cardinality({i \in 1..Len(ws) : ws[i] \in S})

Min(a, b) == IF a < b THEN a ELSE b

\* the mood of a score num / den (den > 0), by the thresholds 0.5, 0.1, -0.1, -0.5
MoodOf(num, den) ==
  IF 2 * num >= den THEN VeryPositive
  ELSE IF 10 * num >= den THEN Positive
  ELSE IF 10 * num > 0 - den THEN Neutral
  ELSE IF 2 * num > 0 - den THEN Negative
  ELSE VeryNegative

\* ((positiveCount - negativeCount) / totalSentimentWords)
\*   * (totalSentimentWords / Math.min(totalWords, 100))
\* is (positiveCount - negativeCount) / Math.min(totalWords, 100)
analyzeSentiment(t) ==
  LET words == MatchWords(toLowerCase(t))
      positiveCount == CountIn(words, positiveWords)
      negativeCount == CountIn(words, negativeWords)
      totalWords == Len(words)
      totalSentimentWords == positiveCount + negativeCount
      num == positiveCount - negativeCount
      den == Min(totalWords, 100)
  IN  IF totalSentimentWords = 0
      THEN [score |-> 0, mood |-> Neutral]
      ELSE [score |-> ToFixed2(num, den), mood |-> MoodOf(num, den)]

----------------------------------------------------------------------------
(* Array.prototype.sort with the comparator (a, b) => b.key - a.key, on a   *)
(* sequence of pairs <<key, value>>: descending by key, and stable (equal   *)
(* keys keep the order they had).                                           *)

InsertDesc_Ascending(sorted, x) ==
  LET p == Cardinality({i \in 1..Len(sorted) : sorted[i][1] <= x[1]})
  IN  SubSeq(sorted, 1, p) \o <<x>> \o SubSeq(sorted, p + 1, Len(sorted))

InsertDesc(sorted, x) ==
  LET p == Cardinality({i \in 1..Len(sorted) : sorted[i][1] >= x[1]})
  IN  SubSeq(sorted, 1, p) \o <<x>> \o SubSeq(sorted, p + 1, Len(sorted))

RECURSIVE SortDescFrom(_, _, _)
SortDescFrom(s, i, acc) ==
  IF i > Len(s) THEN acc ELSE SortDescFrom(s, i + 1, InsertDesc(acc, s[i]))

SortDesc(s) == SortDescFrom(s, 1, <<>>)

\* s.slice(0, n)
Slice0(s, n) == SubSeq(s, 1, Min(n, Len(s)))

----------------------------------------------------------------------------
(* The keys of a plain object, in the order Object.entries lists them: the  *)
(* keys that are array indices (canonical decimal numerals below 2^32 - 1)  *)
(* in ascending numeric order, then every other key in insertion order.     *)

DigitSeq == <<"0","1","2","3","4","5","6","7","8","9">>

DigitVal(c) == CHOOSE d \in 0..9 : DigitSeq[d + 1] = c

\* a < b for numerals without leading zero
NumeralLess(a, b) ==
  \/ Len(a) < Len(b)
  \/ /\ Len(a) = Len(b)
     /\ \E i \in 1..Len(a) :
          /\ DigitVal(a[i]) < DigitVal(b[i])
          /\ \A j \in 1..(i - 1) : a[j] = b[j]

MaxArrayIndex == <<"4","2","9","4","9","6","7","2","9","4">>

IsArrayIndex(k) ==
  /\ Len(k) > 0
  /\ \A i \in 1..Len(k) : k[i] \in Digits
  /\ (k[1] # "0" \/ Len(k) = 1)
  /\ ~NumeralLess(MaxArrayIndex, k)

InsertNumeral(sorted, k) ==
  LET p == Cardinality({i \in 1..Len(sorted) : NumeralLess(sorted[i], k)})
  IN  SubSeq(sorted, 1, p) \o <<k>> \o SubSeq(sorted, p + 1, Len(sorted))

RECURSIVE SortNumeralsFrom(_, _, _)
SortNumeralsFrom(s, i, acc) ==
  IF i > Len(s) THEN acc ELSE SortNumeralsFrom(s, i + 1, InsertNumeral(acc, s[i]))

\* keys: the distinct keys in insertion order
ObjectKeyOrder(keys) ==
  SortNumeralsFrom(SelectSeq(keys, IsArrayIndex), 1, <<>>)
    \o SelectSeq(keys, LAMBDA k : ~IsArrayIndex(k))

----------------------------------------------------------------------------
(* extractThemes *)

stopWords ==
  {<<"t","h","e">>, <<"a","n","d">>, <<"t","o">>, <<"o","f">>, <<"a">>, <<"i","n">>, <<"f","o","r">>,
   <<"i","s">>, <<"o","n">>, <<"t","h","a","t">>, <<"b","y">>, <<"t","h","i","s">>, <<"w","i","t","h">>,
   <<"i">>, <<"y","o","u">>, <<"i","t">>, <<"n","o","t">>, <<"o","r">>, <<"b","e">>, <<"a","r","e">>,
   <<"f","r","o","m">>, <<"a","t">>, <<"a","s">>, <<"y","o","u","r">>, <<"h","a","v","e">>,
   <<"m","o","r","e">>, <<"a","n">>, <<"w","a","s">>, <<"w","e","r","e">>, <<"t","h","e","y">>,
   <<"w","i","l","l">>, <<"t","h","e","r","e">>, <<"t","h","e","i","r">>, <<"w","h","a","t">>,
   <<"a","l","l">>, <<"w","h","e","n">>, <<"u","p">>, <<"o","u","t">>, <<"a","b","o","u","t">>,
   <<"w","h","o">>, <<"g","e","t">>, <<"w","h","i","c","h">>, <<"g","o">>, <<"m","e">>, <<"o","n","e">>,
   <<"m","y">>, <<"w","o","u","l","d">>, <<"v","e","r","y">>, <<"j","u","s","t">>, <<"c","a","n">>}

\* the words forEach counts: not a stop word, longer than 3
IsThemeWord_AtLeast3(w) == w \notin stopWords /\ Len(w) >= 3

IsThemeWord(w) == w \notin stopWords /\ Len(w) > 3

\* the keys of wordCounts in insertion order: the words of ws in the order of
\* their first occurrence
FirstOccurrences(ws) ==
  LET first == {i \in 1..Len(ws) : \A j \in 1..(i - 1) : ws[j] # ws[i]}
      nth(k) == CHOOSE i \in first : Cardinality({j \in first : j <= i}) = k
  IN  [k \in 1..Cardinality(first) |-> ws[nth(k)]]

Occurrences(ws, w) == Cardinality({i \in 1..Len(ws) : ws[i] = w})

extractThemes_TopThree(t) ==
  LET words == MatchWords(toLowerCase(t))
      counted == SelectSeq(words, IsThemeWord)
      keys == ObjectKeyOrder(FirstOccurrences(counted))
      entries == [i \in 1..Len(keys) |-> <<Occurrences(counted, keys[i]), keys[i]>>]
      sortedWords == Slice0(SortDesc(entries), 3)
  IN  [i \in 1..Len(sortedWords) |-> sortedWords[i][2]]

extractThemes(t) ==
  LET words == MatchWords(toLowerCase(t))
      counted == SelectSeq(words, IsThemeWord)
      keys == ObjectKeyOrder(FirstOccurrences(counted))
      entries == [i \in 1..Len(keys) |-> <<Occurrences(counted, keys[i]), keys[i]>>]
      sortedWords == Slice0(SortDesc(entries), 5)
  IN  [i \in 1..Len(sortedWords) |-> sortedWords[i][2]]

----------------------------------------------------------------------------
(* suggestCategories *)

categoryKeywords ==
  <<[category |-> <<"W","o","r","k">>, keywords |-> {<<"w","o","r","k">>, <<"j","o","b">>,
                  <<"c","a","r","e","e","r">>, <<"o","f","f","i","c","e">>,
                  <<"p","r","o","j","e","c","t">>, <<"m","e","e","t","i","n","g">>,
                  <<"d","e","a","d","l","i","n","e">>, <<"c","o","l","l","e","a","g","u","e">>,
                  <<"b","o","s","s">>, <<"p","r","o","f","e","s","s","i","o","n","a","l">>}],
    [category |-> <<"P","e","r","s","o","n","a","l">>, keywords |-> {<<"p","e","r","s","o","n","a","l">>,
                  <<"s","e","l","f">>, <<"r","e","f","l","e","c","t","i","o","n">>,
                  <<"g","r","o","w","t","h">>, <<"i","d","e","n","t","i","t","y">>, <<"g","o","a","l">>,
                  <<"d","r","e","a","m">>, <<"p","l","a","n">>, <<"f","u","t","u","r","e">>}],
    [category |-> <<"F","a","m","i","l","y">>, keywords |-> {<<"f","a","m","i","l","y">>,
                  <<"p","a","r","e","n","t">>, <<"c","h","i","l","d">>, <<"k","i","d">>, <<"m","o","m">>,
                  <<"d","a","d">>, <<"b","r","o","t","h","e","r">>, <<"s","i","s","t","e","r">>,
                  <<"s","p","o","u","s","e">>, <<"r","e","l","a","t","i","v","e">>, <<"h","o","m","e">>}],
    [category |-> <<"H","e","a","l","t","h">>, keywords |-> {<<"h","e","a","l","t","h">>,
                  <<"f","i","t","n","e","s","s">>, <<"e","x","e","r","c","i","s","e">>,
                  <<"d","i","e","t">>, <<"w","o","r","k","o","u","t">>, <<"r","u","n">>, <<"g","y","m">>,
                  <<"d","o","c","t","o","r">>, <<"m","e","d","i","c","i","n","e">>,
                  <<"s","y","m","p","t","o","m">>, <<"i","l","l","n","e","s","s">>}],
    [category |-> <<"T","r","a","v","e","l">>, keywords |-> {<<"t","r","a","v","e","l">>,
                  <<"t","r","i","p">>, <<"v","a","c","a","t","i","o","n">>,
                  <<"j","o","u","r","n","e","y">>, <<"a","d","v","e","n","t","u","r","e">>,
                  <<"e","x","p","l","o","r","e">>, <<"d","e","s","t","i","n","a","t","i","o","n">>,
                  <<"f","l","i","g","h","t">>, <<"h","o","t","e","l">>, <<"t","o","u","r","i","s","t">>}],
    [category |-> <<"F","i","n","a","n","c","e">>, keywords |-> {<<"m","o","n","e","y">>,
                  <<"f","i","n","a","n","c","e">>, <<"b","u","d","g","e","t">>,
                  <<"e","x","p","e","n","s","e">>, <<"i","n","c","o","m","e">>,
                  <<"s","a","v","i","n","g">>, <<"i","n","v","e","s","t","m","e","n","t">>,
                  <<"d","e","b","t">>, <<"p","u","r","c","h","a","s","e">>, <<"c","o","s","t">>}],
    [category |-> <<"E","d","u","c","a","t","i","o","n">>, keywords |-> {<<"s","t","u","d","y">>,
                  <<"l","e","a","r","n">>, <<"s","c","h","o","o","l">>, <<"c","o","l","l","e","g","e">>,
                  <<"u","n","i","v","e","r","s","i","t","y">>, <<"c","l","a","s","s">>,
                  <<"c","o","u","r","s","e">>, <<"e","x","a","m">>, <<"t","e","a","c","h","e","r">>,
                  <<"s","t","u","d","e","n","t">>, <<"b","o","o","k">>}],
    [category |-> <<"C","r","e","a","t","i","v","e">>, keywords |-> {<<"c","r","e","a","t","i","v","e">>,
                  <<"a","r","t">>, <<"m","u","s","i","c">>, <<"w","r","i","t","e">>,
                  <<"p","a","i","n","t">>, <<"d","r","a","w">>, <<"d","e","s","i","g","n">>,
                  <<"c","r","a","f","t">>, <<"p","r","o","j","e","c","t">>, <<"c","r","e","a","t","e">>,
                  <<"i","m","a","g","i","n","a","t","i","o","n">>}],
    [category |-> <<"S","p","i","r","i","t","u","a","l">>, keywords |-> {<<"s","p","i","r","i","t","u","a","l">>, <<"m","e","d","i","t","a","t","i","o","n">>, <<"p","r","a","y","e","r">>, <<"f","a","i","t","h">>, <<"b","e","l","i","e","f">>, <<"r","e","l","i","g","i","o","n">>, <<"s","o","u","l">>, <<"m","e","a","n","i","n","g">>, <<"p","u","r","p","o","s","e">>, <<"m","i","n","d","f","u","l">>}],
    [category |-> <<"S","o","c","i","a","l">>, keywords |-> {<<"f","r","i","e","n","d">>,
                  <<"s","o","c","i","a","l">>, <<"p","a","r","t","y">>,
                  <<"g","a","t","h","e","r","i","n","g">>,
                  <<"c","o","n","v","e","r","s","a","t","i","o","n">>, <<"m","e","e","t","u","p">>,
                  <<"r","e","l","a","t","i","o","n","s","h","i","p">>,
                  <<"c","o","m","m","u","n","i","t","y">>, <<"n","e","t","w","o","r","k">>,
                  <<"c","o","n","n","e","c","t","i","o","n">>}]>>

\* the number of matches of new RegExp(`\\b${keyword}\\b`, 'gi') in s: the places
\* where keyword stands with no word character before it and none after it
KeywordMatches(s, keyword) ==
  Cardinality({i \in 1..(Len(s) - Len(keyword) + 1) :
    /\ \A j \in 1..Len(keyword) : LowerChar(s[i + j - 1]) = keyword[j]
    /\ (i = 1 \/ ~IsWordChar(s[i - 1]))
    /\ (i + Len(keyword) > Len(s) \/ ~IsWordChar(s[i + Len(keyword)]))})

RECURSIVE SumOver(_, _, _)
SumOver(S, s, acc) ==
  IF S = {} THEN acc
  ELSE LET k == CHOOSE k \in S : TRUE
       IN  SumOver(S \ {k}, s, acc + KeywordMatches(s, k))

\* matches, for the entry of categoryKeywords at index e
Matches(e, normalizedText) == SumOver(categoryKeywords[e].keywords, normalizedText, 0)

\* floor of the square root
RECURSIVE ISqrtIn(_, _, _)
ISqrtIn(n, lo, hi) ==
  IF lo >= hi THEN lo
  ELSE LET mid == (lo + hi + 1) \div 2
       IN  IF mid * mid <= n THEN ISqrtIn(n, mid, hi) ELSE ISqrtIn(n, lo, mid - 1)

ISqrt(n) == ISqrtIn(n, 0, 46340)

\* parseFloat((matches / Math.sqrt(length / 100)).toFixed(2)), in hundredths:
\* the largest r with (2r - 1)^2 * length <= (2000 * matches)^2
RelevanceToFixed2(matches, length) ==
  (ISqrt((4000000 * matches * matches) \div length) + 1) \div 2

\* The property names every plain object inherits from Object.prototype:
\* relevanceScores is created as {}, so relevanceScores[name] is a function
\* (or, for __proto__, an object) for these names, not undefined.
ObjectPrototypeKeys ==
  {<<"c","o","n","s","t","r","u","c","t","o","r">>, <<"_","_","p","r","o","t","o","_","_">>,
   <<"h","a","s","O","w","n","P","r","o","p","e","r","t","y">>,
   <<"i","s","P","r","o","t","o","t","y","p","e","O","f">>,
   <<"p","r","o","p","e","r","t","y","I","s","E","n","u","m","e","r","a","b","l","e">>,
   <<"t","o","L","o","c","a","l","e","S","t","r","i","n","g">>, <<"t","o","S","t","r","i","n","g">>,
   <<"v","a","l","u","e","O","f">>, <<"_","_","d","e","f","i","n","e","G","e","t","t","e","r","_","_">>,
   <<"_","_","d","e","f","i","n","e","S","e","t","t","e","r","_","_">>,
   <<"_","_","l","o","o","k","u","p","G","e","t","t","e","r","_","_">>,
   <<"_","_","l","o","o","k","u","p","S","e","t","t","e","r","_","_">>}

\* relevanceScores[name]: "number" with its value in hundredths after toFixed(2),
\* "inherited" for a property of Object.prototype, "undefined" otherwise.  An
\* entry is stored only for a label with at least one match.
RelevanceScoreOf(name, t) ==
  LET normalizedText == toLowerCase(t)
      entry == {e \in 1..Len(categoryKeywords) : categoryKeywords[e].category = name}
      matches == Matches(CHOOSE e \in entry : TRUE, normalizedText)
  IN  IF entry # {} /\ matches > 0
      THEN [kind |-> "number", fixed2 |-> RelevanceToFixed2(matches, Len(t))]
      ELSE IF name \in ObjectPrototypeKeys
      THEN [kind |-> "inherited", fixed2 |-> 0]
      ELSE [kind |-> "undefined", fixed2 |-> 0]

\* relevanceScores[category.name] || (normalizedText.includes(...) ? 0.5 : 0),
\* then toFixed(2): a value that is not a number has no toFixed, and the call
\* throws a TypeError
RelevanceOf_NoFallbackForLabels(category, t) ==
  LET score == RelevanceScoreOf(category.name, t)
  IN  IF score.kind = "number" THEN [threw |-> FALSE, relevance |-> score.fixed2]
      ELSE IF score.kind = "inherited" THEN [threw |-> TRUE, relevance |-> 0]
      ELSE [threw |-> FALSE,
            relevance |-> IF /\ \A e \in 1..Len(categoryKeywords) :
                                  categoryKeywords[e].category # category.name
                             /\ Includes(toLowerCase(t), toLowerCase(category.name))
                          THEN 50 ELSE 0]

RelevanceOf(category, t) ==
  LET score == RelevanceScoreOf(category.name, t)
  IN  IF score.kind = "number" THEN [threw |-> FALSE, relevance |-> score.fixed2]
      ELSE IF score.kind = "inherited" THEN [threw |-> TRUE, relevance |-> 0]
      ELSE [threw |-> FALSE,
            relevance |-> IF Includes(toLowerCase(t), toLowerCase(category.name))
                          THEN 50 ELSE 0]

\* allCategories.map(...): for each row whether the callback throws, and
\* otherwise the pair <<relevance, object>> it returns
RECURSIVE MapCategories(_, _, _)
MapCategories(t, allCategories, i) ==
  IF i > Len(allCategories) THEN <<>>
  ELSE LET r == RelevanceOf(allCategories[i], t)
       IN  <<[threw |-> r.threw,
              entry |-> <<r.relevance,
                          [id |-> allCategories[i].id,
                           name |-> allCategories[i].name,
                           relevance |-> r.relevance]>>]>>
             \o MapCategories(t, allCategories, i + 1)

suggestCategories_NoFilter(t, allCategories) ==
  LET mapped == MapCategories(t, allCategories, 1)
      entries == [i \in 1..Len(mapped) |-> mapped[i].entry]
      top == Slice0(SortDesc(entries), 3)
  IN  IF \E i \in 1..Len(mapped) : mapped[i].threw
      THEN [threw |-> TRUE, value |-> <<>>]
      ELSE [threw |-> FALSE, value |-> [i \in 1..Len(top) |-> top[i][2]]]

\* the outcome of suggestCategories(text) when findMany yields allCategories:
\* it throws, or returns value
suggestCategories(t, allCategories) ==
  LET mapped == MapCategories(t, allCategories, 1)
      entries == [i \in 1..Len(mapped) |-> mapped[i].entry]
      filtered == SelectSeq(entries, LAMBDA m : m[1] > 0)
      top == Slice0(SortDesc(filtered), 3)
  IN  IF \E i \in 1..Len(mapped) : mapped[i].threw
      THEN [threw |-> TRUE, value |-> <<>>]
      ELSE [threw |-> FALSE, value |-> [i \in 1..Len(top) |-> top[i][2]]]

----------------------------------------------------------------------------
(* POST /api/ai-analysis *)

\* s.trim()
Trim(s) ==
  LET kept == {i \in 1..Len(s) : ~IsSpace(s[i])}
  IN  IF kept = {} THEN <<>>
      ELSE SubSeq(s, CHOOSE i \in kept : \A j \in kept : i <= j,
                     CHOOSE i \in kept : \A j \in kept : i >= j)

\* the maximal runs of characters other than white space among lo..hi of s
RECURSIVE NonSpaceRunsIn(_, _, _)
NonSpaceRunsIn(s, lo, hi) ==
  IF lo > hi THEN <<>>
  ELSE IF lo = hi THEN (IF IsSpace(s[lo]) THEN <<>> ELSE <<<<s[lo]>>>>)
  ELSE LET mid == (lo + hi) \div 2
           l == NonSpaceRunsIn(s, lo, mid)
           r == NonSpaceRunsIn(s, mid + 1, hi)
       IN  IF ~IsSpace(s[mid]) /\ ~IsSpace(s[mid + 1])
           THEN SubSeq(l, 1, Len(l) - 1) \o <<l[Len(l)] \o r[1]>> \o Tail(r)
           ELSE l \o r

\* s.split(/\s+/): the pieces between the runs of white space; the empty string
\* before a leading run and after a trailing one; [""] for the empty string
SplitOnWhitespace(s) ==
  IF s = <<>> THEN << <<>> >>
  ELSE (IF IsSpace(s[1]) THEN << <<>> >> ELSE <<>>)
         \o NonSpaceRunsIn(s, 1, Len(s))
         \o (IF IsSpace(s[Len(s)]) THEN << <<>> >> ELSE <<>>)

\* content.trim().split(/\s+/).filter(Boolean).length
WordCount(content) ==
  Len(SelectSeq(SplitOnWhitespace(Trim(content)), LAMBDA piece : piece # <<>>))

\* countWords of the utilities: text.trim().split(/\s+/).filter(Boolean).length
countWords_Unfiltered(t) == Len(SplitOnWhitespace(Trim(t)))

countWords(t) ==
  Len(SelectSeq(SplitOnWhitespace(Trim(t)), LAMBDA piece : piece # <<>>))

\* parts.join(", ")
RECURSIVE JoinFrom(_, _)
JoinFrom(parts, i) ==
  IF i > Len(parts) THEN <<>>
  ELSE IF i = Len(parts) THEN parts[i]
  ELSE parts[i] \o <<","," ">> \o JoinFrom(parts, i + 1)

Join(parts) == JoinFrom(parts, 1)

\* the insight string built from the three results
Insight_MoodAlways(sentimentResult, categoryRecommendations, themeList) ==
  <<"B","a","s","e","d"," ","o","n"," ","y","o","u","r"," ","e","n","t","r","y",","," ">>
    \o <<"y","o","u","r"," ","m","o","o","d"," ","a","p","p","e","a","r","s"," ","t","o"," ","b","e"," ">> \o toLowerCase(sentimentResult.mood) \o <<"."," ">>
    \o (IF Len(categoryRecommendations) > 0
        THEN <<"T","h","i","s"," ","e","n","t","r","y"," ","s","e","e","m","s"," ","t","o"," ","f","o","c","u","s"," ","o","n"," ","t","h","e","m","e","s"," ","r","e","l","a","t","e","d"," ","t","o"," ">>
               \o Join([i \in 1..Len(categoryRecommendations) |->
                          toLowerCase(categoryRecommendations[i].name)])
               \o <<"."," ">>
        ELSE <<>>)
    \o (IF Len(themeList) > 0
        THEN <<"K","e","y"," ","t","o","p","i","c","s"," ","i","n","c","l","u","d","e",":"," ">> \o Join(themeList) \o <<".">>
        ELSE <<>>)

Insight_ThemesBeforeCategories(sentimentResult, categoryRecommendations, themeList) ==
  <<"B","a","s","e","d"," ","o","n"," ","y","o","u","r"," ","e","n","t","r","y",","," ">>
    \o (IF sentimentResult.mood # Neutral
        THEN <<"y","o","u","r"," ","m","o","o","d"," ","a","p","p","e","a","r","s"," ","t","o"," ","b","e"," ">> \o toLowerCase(sentimentResult.mood) \o <<"."," ">>
        ELSE <<>>)
    \o (IF Len(themeList) > 0
        THEN <<"K","e","y"," ","t","o","p","i","c","s"," ","i","n","c","l","u","d","e",":"," ">> \o Join(themeList) \o <<".">>
        ELSE <<>>)
    \o (IF Len(categoryRecommendations) > 0
        THEN <<"T","h","i","s"," ","e","n","t","r","y"," ","s","e","e","m","s"," ","t","o"," ","f","o","c","u","s"," ","o","n"," ","t","h","e","m","e","s"," ","r","e","l","a","t","e","d"," ","t","o"," ">>
               \o Join([i \in 1..Len(categoryRecommendations) |->
                          toLowerCase(categoryRecommendations[i].name)])
               \o <<"."," ">>
        ELSE <<>>)

Insight(sentimentResult, categoryRecommendations, themeList) ==
  <<"B","a","s","e","d"," ","o","n"," ","y","o","u","r"," ","e","n","t","r","y",","," ">>
    \o (IF sentimentResult.mood # Neutral
        THEN <<"y","o","u","r"," ","m","o","o","d"," ","a","p","p","e","a","r","s"," ","t","o"," ","b","e"," ">> \o toLowerCase(sentimentResult.mood) \o <<"."," ">>
        ELSE <<>>)
    \o (IF Len(categoryRecommendations) > 0
        THEN <<"T","h","i","s"," ","e","n","t","r","y"," ","s","e","e","m","s"," ","t","o"," ","f","o","c","u","s"," ","o","n"," ","t","h","e","m","e","s"," ","r","e","l","a","t","e","d"," ","t","o"," ">>
               \o Join([i \in 1..Len(categoryRecommendations) |->
                          toLowerCase(categoryRecommendations[i].name)])
               \o <<"."," ">>
        ELSE <<>>)
    \o (IF Len(themeList) > 0
        THEN <<"K","e","y"," ","t","o","p","i","c","s"," ","i","n","c","l","u","d","e",":"," ">> \o Join(themeList) \o <<".">>
        ELSE <<>>)

\* sessions as getServerSession returns them: none, one without a user, or
\* one of a signed-in user
Users == {[id |-> "u1", role |-> "USER"], [id |-> "u2", role |-> "ADMIN"]}

Sessions ==
  {[present |-> FALSE, user |-> <<>>], [present |-> TRUE, user |-> <<>>]}
    \cup {[present |-> TRUE, user |-> <<u>>] : u \in Users}

\* the negation of (!session || !session.user)
IsAuthenticated(session) == session.present /\ session.user # <<>>

\* analysisRequestSchema.safeParse(body).success: body is an object whose
\* content is a string of at least one character
analysisRequestSchema(body) ==
  /\ body.kind = "object"
  /\ body.content # <<>>
  /\ body.content[1].type = "string"
  /\ Len(body.content[1].str) >= 1

\* the 200 response built from the results, or the 500 response of the catch
\* block when suggestCategories threw
Answer(sentimentResult, suggested, themeList, wordCount) ==
  IF suggested.threw
  THEN [status |-> 500, error |-> "Failed to perform AI analysis", result |-> <<>>,
        io |-> <<"getServerSession", "request.json", "category.findMany">>]
  ELSE [status |-> 200, error |-> "",
        result |-> <<[sentiment |-> sentimentResult,
                      categoryRecommendations |-> suggested.value,
                      themes |-> themeList,
                      wordCount |-> wordCount,
                      insight |-> Insight(sentimentResult, suggested.value,
                                          themeList)]>>,
        io |-> <<"getServerSession", "request.json", "category.findMany">>]

\* The analysis of a valid content when findMany yields allCategories: the
\* 200 response, or the 500 response of the catch block when a step throws.
Analysis(content, allCategories) ==
  Answer(analyzeSentiment(content), suggestCategories(content, allCategories),
         extractThemes(content), WordCount(content))

POST_CategoriesForAdminsOnly(session, body, allCategories) ==
  IF ~IsAuthenticated(session)
  THEN [status |-> 401, error |-> "Unauthorized", result |-> <<>>,
        io |-> <<"getServerSession">>]
  ELSE IF body.kind = "malformed"
  THEN [status |-> 500, error |-> "Failed to perform AI analysis", result |-> <<>>,
        io |-> <<"getServerSession", "request.json">>]
  ELSE IF ~analysisRequestSchema(body)
  THEN [status |-> 400, error |-> "Invalid input", result |-> <<>>,
        io |-> <<"getServerSession", "request.json">>]
  ELSE Analysis(body.content[1].str,
                IF session.user[1].role = "ADMIN" THEN allCategories ELSE <<>>)

\* The response of POST to a request with the given session and body, when the
\* Category table holds allCategories, and the reads made on the way.
POST(session, body, allCategories) ==
  IF ~IsAuthenticated(session)
  THEN [status |-> 401, error |-> "Unauthorized", result |-> <<>>,
        io |-> <<"getServerSession">>]
  ELSE IF body.kind = "malformed"
  THEN [status |-> 500, error |-> "Failed to perform AI analysis", result |-> <<>>,
        io |-> <<"getServerSession", "request.json">>]
  ELSE IF ~analysisRequestSchema(body)
  THEN [status |-> 400, error |-> "Invalid input", result |-> <<>>,
        io |-> <<"getServerSession", "request.json">>]
  ELSE Analysis(body.content[1].str, allCategories)

----------------------------------------------------------------------------
(* Texts. *)

RECURSIVE Repeat(_, _)
Repeat(u, k) ==
  IF k = 0 THEN <<>>
  ELSE IF k % 2 = 0 THEN LET h == Repeat(u, k \div 2) IN h \o h
  ELSE u \o Repeat(u, k - 1)

TextPieces ==
  {<<"h","a","p","p","y">>, <<"H","a","p","p","y">>, <<"s","a","d">>, <<"a","b","o","u","t">>,
   <<"t","h","e">>, <<"a","b","c","d","e","f">>, <<"2","0","2","4">>, <<" ">>, <<"!"," ">>, <<"_">>}

RECURSIVE TextsUpTo(_, _)
TextsUpTo(P, n) ==
  IF n = 0 THEN {<<>>}
  ELSE LET shorter == TextsUpTo(P, n - 1)
       IN  shorter \cup {t \o p : t \in shorter, p \in P}

ShortTexts == TextsUpTo(TextPieces, MaxPieces)

\* six distinct words that extractThemes counts, with a piece before and after
WideText == <<" ","a","l","p","h","a"," ","b","r","a","v","o"," ","c","h","a","r","l","i","e"," ","d","e","l","t","a"," ","e","c","h","o","e","s"," ","f","o","x","t","r","o","t"," ">>

WideTexts == {p \o WideText \o q : p, q \in TextPieces \cup {<<>>}}

\* texts of about a hundred words
LongUnits == {<<"h","a","p","p","y"," ">>, <<"s","a","d"," ">>, <<"t","h","e"," ">>}

LongTexts ==
  {p \o Repeat(u, k) : p \in TextPieces \cup {<<>>}, u \in LongUnits,
                       k \in (MaxRepeat - 3)..MaxRepeat}

\* texts of about twenty words, one or two of them sentiment words
MidTexts ==
  {Repeat(u, j) \o Repeat(<<"t","h","e"," ">>, k) : u \in {<<"h","a","p","p","y"," ">>,
                          <<"s","a","d"," ">>}, j \in 1..2, k \in 17..20}

Texts == ShortTexts \cup WideTexts \cup LongTexts \cup MidTexts

----------------------------------------------------------------------------
(* Category tables. *)

\* the name of the category with id i
CategoryNames ==
  <<<<"W","o","r","k">>, <<"J","o","b">>, <<"H","e","a","l","t","h">>,
    <<"c","o","n","s","t","r","u","c","t","o","r">>, <<"C","r","e","a","t","i","v","e">>,
    <<"T","r","a","v","e","l">>, <<"I","d","e","a","s">>>>

CategoryRow(i) == [id |-> i, name |-> CategoryNames[i]]

\* the rows with ids in S, by ascending id
RECURSIVE RowsAscending(_, _)
RowsAscending(S, i) ==
  IF i > MaxCats THEN <<>>
  ELSE (IF i \in S THEN <<CategoryRow(i)>> ELSE <<>>) \o RowsAscending(S, i + 1)

Reverse(s) == [i \in 1..Len(s) |-> s[Len(s) + 1 - i]]

CatalogsAscending == {RowsAscending(S, 1) : S \in SUBSET (1..Min(MaxCats, Len(CategoryNames)))}

\* tables of rows with distinct names, by ascending or by descending id
Catalogs == CatalogsAscending \cup {Reverse(c) : c \in CatalogsAscending}

CatPieces ==
  {<<>>, <<"j","o","b">>, <<"g","y","m">>, <<"a","r","t"," ">>, <<"p","r","o","j","e","c","t">>,
         <<"h","o","m","e","w","o","r","k">>, <<" ">>, <<"J","o","b","s"," ">>,
         <<" ","j","o","b"," ","g","y","m"," ","a","r","t"," ">>, <<"g","y","m"," ","g","y","m"," ">>}

\* a text long enough for one keyword match to weigh less than 0.5
Filler == Repeat(<<" ","t","h","e"," ","q","u","i","c","k"," ","f","o","x">>, 30)

CatTexts ==
  {a \o b : a, b \in CatPieces} \cup {a \o Filler : a \in CatPieces}

InitCategories ==
  /\ text \in CatTexts
  /\ categories \in Catalogs
  /\ sentiment = <<>>
  /\ themes = <<>>
  /\ suggestions = <<>>
  /\ request = <<>>
  /\ response = <<>>
  /\ io = <<>>
  /\ again = <<>>
  /\ tally = <<>>
  /\ NoData

RunSuggestCategories ==
  /\ suggestions = <<>>
  /\ suggestions' = <<suggestCategories(text, categories)>>
  /\ UNCHANGED <<text, sentiment, themes, categories, request, response, io, again, tally, dataVars>>

NextCategories == RunSuggestCategories

SpecCategories == InitCategories /\ [][NextCategories]_vars

----------------------------------------------------------------------------
(* Requests to POST /api/ai-analysis. *)

XyzContent == <<"x","y","z"," ","a","b","c","d","e","f"," ","q","q","q","r","r","r">>

Contents ==
  {<<>>, <<" ">>, <<" ","\t","\n"," ">>, XyzContent, <<"H","a","p","p","y"," ","j","o","b","!">>,
         <<"s","a","d"," ","g","y","m"," ","a","r","t"," ","j","o","b">>,
         <<"_","h","a","p","p","y","_"," ","h","o","m","e","w","o","r","k">>, <<"h","a","p","p","y">>,
         <<"j","o","b">>,
         <<"t","h","e"," ","2","0","2","4"," ","a","b","o","u","t"," "," ","a","b","c","d","e","f"," ","a","b","c","d","e","f">>}

\* a body that is not JSON, JSON that is no object, an object without content,
\* an object whose content is a number, an object whose content is a string
Bodies ==
  {[kind |-> "malformed", content |-> <<>>],
   [kind |-> "null", content |-> <<>>],
   [kind |-> "object", content |-> <<>>],
   [kind |-> "object", content |-> <<[type |-> "number", str |-> <<>>]>>]}
    \cup {[kind |-> "object", content |-> <<[type |-> "string", str |-> c]>>] :
            c \in Contents}

\* the Category table after its first k rows were created
TablesByCreation == {RowsAscending(1..k, 1) : k \in 0..Min(MaxCats, Len(CategoryNames))}

Init ==
  /\ categories \in TablesByCreation
  /\ request = <<>>
  /\ response = <<>>
  /\ io = <<>>
  /\ again = <<>>
  /\ tally = <<>>
  /\ NoData
  /\ text = <<>>
  /\ sentiment = <<>>
  /\ themes = <<>>
  /\ suggestions = <<>>

\* POST on every request and table of the model, computed once
Responses ==
  [c \in TablesByCreation, session \in Sessions, body \in Bodies |->
     POST(session, body, c)]

\* the state after POST answered r to the request
Answered(session, body, r) ==
  /\ UNCHANGED <<categories, text, sentiment, themes, suggestions, tally, dataVars>>
  /\ request' = <<[session |-> session, body |-> body]>>
  /\ response' = <<[status |-> r.status, error |-> r.error, result |-> r.result]>>
  /\ io' = r.io
  /\ again' = IF request = <<>> THEN <<>>
              ELSE <<[sameBody |-> body = request[1].body,
                      sameSession |-> session = request[1].session,
                      sameTable |-> categories' = categories,
                      bothAuthenticated |-> IsAuthenticated(session)
                                             /\ IsAuthenticated(request[1].session),
                      sameResponse |-> response' = response]>>

PostAiAnalysis(session, body) ==
  Answered(session, body, Responses[categories, session, body])

Next == \E session \in Sessions, body \in Bodies : PostAiAnalysis(session, body)

Spec == Init /\ [][Next]_vars

----------------------------------------------------------------------------
InitText ==
  /\ text \in Texts
  /\ sentiment = <<>>
  /\ themes = <<>>
  /\ suggestions = <<>>
  /\ categories = <<>>
  /\ request = <<>>
  /\ response = <<>>
  /\ io = <<>>
  /\ again = <<>>
  /\ tally = <<>>
  /\ NoData

RunAnalyzeSentiment ==
  /\ sentiment = <<>>
  /\ sentiment' = <<analyzeSentiment(text)>>
  /\ UNCHANGED <<text, themes, suggestions, categories, request, response, io, again, tally, dataVars>>

RunExtractThemes ==
  /\ themes = <<>>
  /\ themes' = <<extractThemes(text)>>
  /\ UNCHANGED <<text, sentiment, suggestions, categories, request, response, io, again, tally, dataVars>>

NextText == RunAnalyzeSentiment \/ RunExtractThemes

SpecText == InitText /\ [][NextText]_vars

----------------------------------------------------------------------------
(* The analysis functions and the word counts invoked directly, on texts    *)
(* that include the degenerate ones, with every category table.             *)

HappyContent ==
  <<"I"," ","a","m"," ","s","o"," ","h","a","p","p","y"," ","a","n","d"," ","e","x","c","i","t","e","d"," ","a","b","o","u","t"," ","m","y"," ","n","e","w"," ","j","o","b","!"," ","G","r","e","a","t"," ","o","p","p","o","r","t","u","n","i","t","i","e","s"," ","a","h","e","a","d",".">>

DirectTexts ==
  {<<>>, <<" ">>, <<"\t">>, <<" ","\t","\n"," ">>, <<" "," ","\n","\n"," "," ">>,
         <<"t","h","e"," ","a","n","d"," ","b","u","t">>,
         <<"T","h","e"," ","o","f",","," ","t","o","."," ","A","!">>,
         <<"!","!","!"," ",".",".","."," ","?","?","?">>,
   <<"?">>, <<"_">>, <<"h","a","p","p","y">>, <<"n","o","t"," ","b","a","d">>,
   <<"s","a","d"," ","t","h","e">>, <<"h","o","m","e","w","o","r","k">>, <<"a"," ","b"," "," ","c">>,
   <<" ","j","o","b"," ","g","y","m"," ">>,
   XyzContent, HappyContent}

InitDirect ==
  /\ text \in DirectTexts
  /\ categories \in Catalogs
  /\ sentiment = <<>>
  /\ themes = <<>>
  /\ suggestions = <<>>
  /\ request = <<>>
  /\ response = <<>>
  /\ io = <<>>
  /\ again = <<>>
  /\ tally = <<>>
  /\ NoData

RunCountWords ==
  /\ tally = <<>>
  /\ tally' = <<[wordCount |-> WordCount(text), countWords |-> countWords(text)]>>
  /\ UNCHANGED <<text, sentiment, themes, suggestions, categories, request, response, io,
                 again, dataVars>>

NextDirect ==
  RunAnalyzeSentiment \/ RunExtractThemes \/ RunSuggestCategories \/ RunCountWords

SpecDirect == InitDirect /\ [][NextDirect]_vars

----------------------------------------------------------------------------
(* The words of a text, stated from the text itself: a word is a maximal    *)
(* run of letters, digits and underscores, taken in lower case.             *)

RECURSIVE RunEnd(_, _)
RunEnd(s, j) == IF j < Len(s) /\ IsWordChar(s[j + 1]) THEN RunEnd(s, j + 1) ELSE j

WordStarts(s) ==
  {i \in 1..Len(s) : IsWordChar(s[i]) /\ (i = 1 \/ ~IsWordChar(s[i - 1]))}

TokenSet(t) ==
  LET lt == toLowerCase(t)
  IN  {SubSeq(lt, i, RunEnd(lt, i)) : i \in WordStarts(lt)}

Lexicon == positiveWords \cup negativeWords

----------------------------------------------------------------------------
(* Variants of a text that differ in letter case, or by punctuation or      *)
(* white space added next to its words.                                     *)

SwapCase(c) ==
  IF c \in DOMAIN UpperToLower THEN UpperToLower[c]
  ELSE IF c \in LowerLetters THEN CHOOSE u \in DOMAIN UpperToLower : UpperToLower[u] = c
  ELSE c

CaseVariants(t) ==
  {[t EXCEPT ![i] = SwapCase(t[i])] : i \in 1..Len(t)} \cup {toLowerCase(t)}

IsAlnum(c) == c \in LowerLetters \cup DOMAIN UpperToLower \cup Digits

Padding == {" ", "\t", "!", ".", ",", "_"}

\* the places between characters that are not inside a run of letters and digits
PadPlaces(t) ==
  {i \in 0..Len(t) : ~(i >= 1 /\ i < Len(t) /\ IsAlnum(t[i]) /\ IsAlnum(t[i + 1]))}

PaddedVariants(t) ==
  {SubSeq(t, 1, i) \o <<c>> \o SubSeq(t, i + 1, Len(t)) : i \in PadPlaces(t), c \in Padding}

----------------------------------------------------------------------------
(* Claims about analyzeSentiment and extractThemes, checked under SpecText. *)

\* C1: the score analyzeSentiment returns lies in [-1, 1], for every text,
\* texts of more than 100 words included.
C1_ScoreWithinUnitInterval ==
  sentiment # <<>> => sentiment[1].score \in (0 - 100)..100

\* C5: when no word of the text belongs to the positive or the negative
\* lexicon, analyzeSentiment returns exactly score 0 and mood "Neutral".
C5_NoLexiconWordIsNeutral ==
  (sentiment # <<>> /\ TokenSet(text) \cap Lexicon = {})
    => sentiment[1] = [score |-> 0, mood |-> Neutral]

\* C5 witness: analyzeSentiment has run on a text that has words, none of them
\* in the lexicon, one of them containing the lexicon word "happy".
C5_Witness ==
  /\ sentiment # <<>>
  /\ TokenSet(text) # {}
  /\ TokenSet(text) \cap Lexicon = {}
  /\ Includes(toLowerCase(text), <<"h","a","p","p","y">>)
  /\ sentiment[1].score = 0

\* C7: extractThemes returns at most 5 entries, none of them a stop word or a
\* word of length 3 or less.
C7_ThemesAtMostFiveNoStopNoShort ==
  themes # <<>> =>
    /\ Len(themes[1]) <= 5
    /\ \A i \in 1..Len(themes[1]) :
         themes[1][i] \notin stopWords /\ Len(themes[1][i]) > 3

\* C7 witness: extractThemes has run on a text with more than 5 distinct
\* words it counts, a stop word longer than 3 and a word of length 3, and
\* has returned 5 entries.
C7_Witness ==
  /\ themes # <<>>
  /\ Cardinality({w \in TokenSet(text) : IsThemeWord(w)}) > 5
  /\ <<"a","b","o","u","t">> \in TokenSet(text)
  /\ <<"s","a","d">> \in TokenSet(text)
  /\ Len(themes[1]) = 5

\* the tokens of the text, in order
TokensOfText == MatchWords(toLowerCase(text))

\* the place of the first occurrence of the token w in the text
FirstPlace(w) ==
  CHOOSE i \in 1..Len(TokensOfText) :
    TokensOfText[i] = w /\ \A j \in 1..(i - 1) : TokensOfText[j] # w

\* C23: extractThemes lists tokens in non-increasing order of frequency, and
\* tokens of equal frequency in the order of their first occurrence in the
\* text, tokens made only of digits included.
C23_ByFrequencyThenFirstOccurrence ==
  themes # <<>> =>
    \A i, j \in 1..Len(themes[1]) :
      i < j =>
        LET a == themes[1][i]
            b == themes[1][j]
        IN  /\ Occurrences(TokensOfText, a) >= Occurrences(TokensOfText, b)
            /\ Occurrences(TokensOfText, a) = Occurrences(TokensOfText, b)
                 => FirstPlace(a) < FirstPlace(b)

\* C10: analyzeSentiment returns the same result for a text and for every
\* variant of it that differs only in letter case or in punctuation or white
\* space added around the words.
C10_SentimentIgnoresCaseAndPadding ==
  sentiment # <<>> =>
    \A v \in CaseVariants(text) \cup PaddedVariants(text) :
      analyzeSentiment(v) = sentiment[1]

----------------------------------------------------------------------------
(* Claims about suggestCategories, checked under SpecCategories. *)

\* the place of the row with the id of entry e in the Category table
PlaceInTable(e) == CHOOSE i \in 1..Len(categories) : categories[i].id = e.id

\* C2: every category suggestCategories returns has a relevance in [0, 1],
\* for every text and every category table.
C2_RelevanceWithinUnitInterval ==
  (suggestions # <<>> /\ ~suggestions[1].threw) =>
    \A i \in 1..Len(suggestions[1].value) :
      suggestions[1].value[i].relevance \in 0..100

\* C6: suggestCategories returns at most 3 entries, in non-increasing order of
\* relevance, and an empty result whenever the category table is empty.
C6_AtMostThreeSortedEmptyForNoCategories ==
  suggestions # <<>> =>
    /\ ~suggestions[1].threw =>
         /\ Len(suggestions[1].value) <= 3
         /\ \A i \in 1..(Len(suggestions[1].value) - 1) :
              suggestions[1].value[i].relevance >= suggestions[1].value[i + 1].relevance
    /\ categories = <<>> => suggestions[1] = [threw |-> FALSE, value |-> <<>>]

\* C6 witness: suggestCategories has returned 3 entries of a table with more
\* than 3 relevant rows, of differing relevance, the first of them a row that
\* stands after the second in the table.
C6_Witness ==
  /\ suggestions # <<>>
  /\ ~suggestions[1].threw
  /\ Len(suggestions[1].value) = 3
  /\ Cardinality({i \in 1..Len(categories) :
                    RelevanceOf(categories[i], text).relevance > 0}) > 3
  /\ suggestions[1].value[1].relevance > suggestions[1].value[3].relevance
  /\ PlaceInTable(suggestions[1].value[1]) > PlaceInTable(suggestions[1].value[2])

----------------------------------------------------------------------------
(* Claims about POST /api/ai-analysis, checked under Spec. *)

\* the content of the last request, when it is a string
ContentOf(body) ==
  IF body.kind = "object" /\ body.content # <<>> /\ body.content[1].type = "string"
  THEN <<body.content[1].str>> ELSE <<>>

\* a body that was parsed and whose content is missing, is no string, or is
\* empty once trimmed
ContentMissingOrBlank(body) ==
  /\ body.kind # "malformed"
  /\ (ContentOf(body) = <<>> \/ Trim(ContentOf(body)[1]) = <<>>)

\* C3: POST by an authenticated caller responds 400 and performs no analysis
\* whenever content is missing, is not a string, or is empty after trimming.
C3_BlankContentRejected ==
  (response # <<>> /\ IsAuthenticated(request[1].session)
     /\ ContentMissingOrBlank(request[1].body))
    => /\ response[1].status = 400
       /\ response[1].result = <<>>
       /\ \A i \in 1..Len(io) : io[i] # "category.findMany"

\* C4: POST responds 401 to every unauthenticated request, before the body is
\* read and before any category is read, and 200 with the analysis result to
\* every authenticated request whose content is a non-empty string.
C4_UnauthorizedFirstElseOk ==
  response # <<>> =>
    /\ ~IsAuthenticated(request[1].session) =>
         response[1].status = 401 /\ io = <<"getServerSession">>
    /\ (IsAuthenticated(request[1].session)
          /\ ContentOf(request[1].body) # <<>>
          /\ ContentOf(request[1].body)[1] # <<>>) =>
         response[1].status = 200 /\ response[1].result # <<>>

\* no name of the Category table occurs in the content
NoCategoryNamed(content) ==
  \A i \in 1..Len(categories) :
    ~Includes(toLowerCase(content), toLowerCase(categories[i].name))

\* C8 as stated: the analysis of "xyz abcdef qqqrrr" yields Neutral with score 0,
\* no recommendations, exactly the three themes abcdef, qqqrrr and xyz, and the
\* insight "Based on your entry, " followed by the "Key topics include:" clause.
C8_ThreeThemesForXyz ==
  (response # <<>> /\ response[1].status = 200
     /\ ContentOf(request[1].body) = <<XyzContent>> /\ NoCategoryNamed(XyzContent))
    => LET r == response[1].result[1]
       IN  /\ r.sentiment = [score |-> 0, mood |-> Neutral]
           /\ r.categoryRecommendations = <<>>
           /\ Len(r.themes) = 3
           /\ {r.themes[i] : i \in 1..Len(r.themes)} = {<<"a","b","c","d","e","f">>,
                                                        <<"q","q","q","r","r","r">>, <<"x","y","z">>}
           /\ r.insight = <<"B","a","s","e","d"," ","o","n"," ","y","o","u","r"," ","e","n","t","r","y",","," ","K","e","y"," ","t","o","p","i","c","s"," ","i","n","c","l","u","d","e",":"," ">>
                            \o Join(r.themes) \o <<".">>

\* C8 amended: the themes are exactly abcdef and qqqrrr, in this order (xyz has
\* length 3 and is not counted), and the insight names these two.
C8_TwoThemesForXyz ==
  (response # <<>> /\ response[1].status = 200
     /\ ContentOf(request[1].body) = <<XyzContent>> /\ NoCategoryNamed(XyzContent))
    => LET r == response[1].result[1]
       IN  /\ r.sentiment = [score |-> 0, mood |-> Neutral]
           /\ r.categoryRecommendations = <<>>
           /\ r.themes = <<<<"a","b","c","d","e","f">>, <<"q","q","q","r","r","r">>>>
           /\ r.insight = <<"B","a","s","e","d"," ","o","n"," ","y","o","u","r"," ","e","n","t","r","y",","," ","K","e","y"," ","t","o","p","i","c","s"," ","i","n","c","l","u","d","e",":"," ","a","b","c","d","e","f",","," ","q","q","q","r","r","r",".">>

\* C8 witness: a 200 response to "xyz abcdef qqqrrr" with a table of 3 rows.
C8_Witness ==
  /\ response # <<>>
  /\ response[1].status = 200
  /\ ContentOf(request[1].body) = <<XyzContent>>
  /\ Len(categories) = 3
  /\ NoCategoryNamed(XyzContent)

\* C9: two calls with the same content and the same category table get
\* identical responses, whoever the signed-in callers are.
C9_SameInputsSameResult ==
  (again # <<>> /\ again[1].sameBody /\ again[1].sameTable
     /\ again[1].bothAuthenticated)
    => again[1].sameResponse

\* C9 witness: the same content was analysed twice in a row for two different
\* users, with recommendations and themes in the result.
C9_Witness ==
  /\ again # <<>>
  /\ again[1].sameBody /\ again[1].sameTable /\ again[1].bothAuthenticated
  /\ ~again[1].sameSession
  /\ response[1].status = 200
  /\ response[1].result[1].categoryRecommendations # <<>>
  /\ response[1].result[1].themes # <<>>

\* the first position at which t occurs in s, or 0 when it does not occur
IndexOf(s, t) ==
  LET at == {i \in 1..(Len(s) - Len(t) + 1) : \A j \in 1..Len(t) : s[i + j - 1] = t[j]}
  IN  IF at = {} THEN 0 ELSE CHOOSE i \in at : \A k \in at : i <= k

InsightPrefix == <<"B","a","s","e","d"," ","o","n"," ","y","o","u","r"," ","e","n","t","r","y",","," ">>
MoodClause == <<"y","o","u","r"," ","m","o","o","d"," ","a","p","p","e","a","r","s"," ","t","o"," ","b","e"," ">>
CategoryClause == <<"T","h","i","s"," ","e","n","t","r","y"," ","s","e","e","m","s"," ","t","o"," ","f","o","c","u","s"," ","o","n"," ","t","h","e","m","e","s"," ","r","e","l","a","t","e","d"," ","t","o"," ">>
TopicsClause == <<"K","e","y"," ","t","o","p","i","c","s"," ","i","n","c","l","u","d","e",":"," ">>

\* C11: the insight of every analysis starts with "Based on your entry, ", holds
\* the mood clause exactly when the mood is not Neutral, the category clause
\* exactly when there are recommendations and the "Key topics include:" clause
\* exactly when there are themes, and the clauses present stand in this order.
C11_InsightClauses ==
  (response # <<>> /\ response[1].status = 200)
    => LET r == response[1].result[1]
           m == IndexOf(r.insight, MoodClause)
           c == IndexOf(r.insight, CategoryClause)
           t == IndexOf(r.insight, TopicsClause)
       IN  /\ SubSeq(r.insight, 1, Len(InsightPrefix)) = InsightPrefix
           /\ (m > 0) <=> (r.sentiment.mood # Neutral)
           /\ (c > 0) <=> (r.categoryRecommendations # <<>>)
           /\ (t > 0) <=> (r.themes # <<>>)
           /\ (m > 0) => m = Len(InsightPrefix) + 1
           /\ (m > 0 /\ c > 0) => m < c
           /\ (c > 0 /\ t > 0) => c < t
           /\ (m > 0 /\ t > 0) => m < t

\* C11 witness: an analysis whose mood is not Neutral and that has both
\* recommendations and themes, so that all three clauses are in the insight.
C11_Witness ==
  /\ response # <<>>
  /\ response[1].status = 200
  /\ response[1].result[1].sentiment.mood # Neutral
  /\ response[1].result[1].categoryRecommendations # <<>>
  /\ response[1].result[1].themes # <<>>

----------------------------------------------------------------------------
(* Claims about the functions invoked directly, checked under SpecDirect. *)

AllWhitespace(t) == \A i \in 1..Len(t) : IsSpace(t[i])

\* C12: on the empty string, with every category table, no function fails, the
\* word count is 0, the sentiment is Neutral with score 0, and there are no
\* recommendations and no themes.
C12_EmptyStringAnalysed ==
  (text = <<>>)
    => /\ (tally # <<>>) => tally[1].wordCount = 0
       /\ (sentiment # <<>>) => sentiment[1] = [score |-> 0, mood |-> Neutral]
       /\ (suggestions # <<>>) => (~suggestions[1].threw /\ suggestions[1].value = <<>>)
       /\ (themes # <<>>) => themes[1] = <<>>

\* C13: the word count of the empty string and of every string of white space
\* only is 0, by the expression of the analysis endpoint and by countWords.
C13_BlankWordCountIsZero ==
  (tally # <<>> /\ AllWhitespace(text))
    => (tally[1].wordCount = 0 /\ tally[1].countWords = 0)

\* C13 witness: the words of a string of several white-space characters were
\* counted.
C13_Witness ==
  /\ tally # <<>>
  /\ AllWhitespace(text)
  /\ Len(text) >= 4

\* C14: the sentiment, theme and category-scoring functions raise no error on
\* any text, and a text without sentiment words gets score 0 and mood Neutral.
C14_NeverThrows ==
  /\ (suggestions # <<>>) => ~suggestions[1].threw
  /\ (sentiment # <<>> /\ TokenSet(text) \cap Lexicon = {})
       => sentiment[1] = [score |-> 0, mood |-> Neutral]

\* C15: for the content "I am so happy and excited about my new job! Great
\* opportunities ahead." and a table holding only Work, the mood is Positive
\* or Very Positive, Work is recommended with a relevance above 0, and happy,
\* excited, opportunities and ahead are among the themes.
C15_HappyJobScenario ==
  (text = HappyContent /\ categories = <<CategoryRow(1)>>)
    => /\ (sentiment # <<>>) => sentiment[1].mood \in {Positive, VeryPositive}
       /\ (suggestions # <<>>)
            => /\ ~suggestions[1].threw
               /\ \E i \in 1..Len(suggestions[1].value) :
                     /\ suggestions[1].value[i].name = <<"W","o","r","k">>
                     /\ suggestions[1].value[i].relevance > 0
       /\ (themes # <<>>)
            => {<<"h","a","p","p","y">>, <<"e","x","c","i","t","e","d">>,
                <<"o","p","p","o","r","t","u","n","i","t","i","e","s">>, <<"a","h","e","a","d">>}
                 \subseteq {themes[1][i] : i \in 1..Len(themes[1])}

\* C15 witness: the three functions have run on that content with that table.
C15_Witness ==
  /\ text = HappyContent
  /\ categories = <<CategoryRow(1)>>
  /\ sentiment # <<>>
  /\ suggestions # <<>>
  /\ themes # <<>>

\* the mood that the thresholds assign to a score given in hundredths
BucketOf(hundredths) ==
  IF hundredths >= 50 THEN VeryPositive
  ELSE IF hundredths >= 10 THEN Positive
  ELSE IF hundredths > -10 THEN Neutral
  ELSE IF hundredths > -50 THEN Negative
  ELSE VeryNegative

\* C19: the mood analyzeSentiment returns is the one the thresholds (>= 0.5
\* Very Positive, >= 0.1 Positive, > -0.1 Neutral, > -0.5 Negative, else Very
\* Negative) assign to the score it returns, which is rounded to 2 decimals.
C19_MoodIsBucketOfReturnedScore ==
  (sentiment # <<>>) => sentiment[1].mood = BucketOf(sentiment[1].score)

----------------------------------------------------------------------------
(* Claims about the precedence of the keyword score, under SpecCategories. *)

\* the indices of categoryKeywords whose label is name
LabelIndex(name) == {e \in 1..Len(categoryKeywords) : categoryKeywords[e].category = name}

\* the keyword matches of the label name in the text
LabelMatches(name) ==
  IF LabelIndex(name) = {} THEN 0
  ELSE Matches(CHOOSE e \in LabelIndex(name) : TRUE, toLowerCase(text))

NameInText(name) == Includes(toLowerCase(text), toLowerCase(name))

\* C20 as stated: a recommended category whose name is a label of the keyword
\* map has the keyword-match score of that label as its relevance; the 0.5 of
\* the substring fallback goes only to names that are no label.
C20_LabelsGetKeywordScoreOnly ==
  (suggestions # <<>> /\ ~suggestions[1].threw)
    => \A i \in 1..Len(suggestions[1].value) :
         LET c == suggestions[1].value[i]
         IN  LabelIndex(c.name) # {}
               => /\ LabelMatches(c.name) > 0
                  /\ c.relevance = RelevanceToFixed2(LabelMatches(c.name), Len(text))

\* the relevance of a name: the keyword score of its label when the label has
\* a match, else 0.5 when the name occurs in the text, else 0
ExpectedRelevance(name) ==
  IF LabelMatches(name) > 0 THEN RelevanceToFixed2(LabelMatches(name), Len(text))
  ELSE IF NameInText(name) THEN 50
  ELSE 0

\* C20 amended: the relevance of a category is the keyword-match score of its
\* label when the label has at least one match in the text; a label without a
\* match, like a name that is no label, gets 0.5 when the lower-cased name occurs
\* in the lower-cased text, and is left out otherwise.
C20_FallbackWhenLabelHasNoMatch ==
  (suggestions # <<>> /\ ~suggestions[1].threw)
    => LET value == suggestions[1].value
       IN  /\ \A i \in 1..Len(value) :
                 /\ value[i].relevance = ExpectedRelevance(value[i].name)
                 /\ value[i].relevance > 0
           /\ Len(categories) <= 3
                => {value[i].name : i \in 1..Len(value)}
                     = {categories[j].name : j \in {k \in 1..Len(categories) :
                                                      ExpectedRelevance(categories[k].name) > 0}}

\* C20 witness: Work is recommended with relevance 0.5 for a text that holds
\* "work" inside a longer word and none of the keywords of Work.
C20_Witness ==
  /\ suggestions # <<>>
  /\ ~suggestions[1].threw
  /\ LabelMatches(<<"W","o","r","k">>) = 0
  /\ \E i \in 1..Len(suggestions[1].value) :
        /\ suggestions[1].value[i].name = <<"W","o","r","k">>
        /\ suggestions[1].value[i].relevance = 50

\* the entries of the returned list that carry the name
ReturnedAs(name) ==
  {i \in 1..Len(suggestions[1].value) : suggestions[1].value[i].name = name}

\* the rows of the table whose name is no label of the keyword map
NonLabelRows == {j \in 1..Len(categories) : LabelIndex(categories[j].name) = {}}

\* C21: a category of the table whose name is no label of the keyword map gets
\* relevance 0.5 when its lower-cased name occurs in the lower-cased text, and
\* 0 otherwise; with 0 it is not returned, with 0.5 it is returned unless three
\* rows of at least this relevance fill the list.
C21_NonLabelGetsHalfOrNothing ==
  suggestions # <<>>
    => \A j \in NonLabelRows :
         LET name == categories[j].name
         IN  /\ ~suggestions[1].threw
             /\ \A i \in ReturnedAs(name) : suggestions[1].value[i].relevance = 50
             /\ ~NameInText(name) => ReturnedAs(name) = {}
             /\ (NameInText(name) /\ ReturnedAs(name) = {})
                  => /\ Len(suggestions[1].value) = 3
                     /\ suggestions[1].value[3].relevance >= 50

\* the rows of the table that the returned list leaves out
LeftOut ==
  {j \in 1..Len(categories) :
     \A i \in 1..Len(suggestions[1].value) : suggestions[1].value[i].id # categories[j].id}

\* C22: every category suggestCategories returns has a rounded relevance above
\* 0, and the returned ones are the highest: no row of the table that is left
\* out has a rounded relevance above that of a returned one, and a row above 0
\* is left out only of a list of three.
C22_ReturnedArePositiveAndHighest ==
  (suggestions # <<>> /\ ~suggestions[1].threw)
    => LET value == suggestions[1].value
       IN  /\ \A i \in 1..Len(value) : value[i].relevance > 0
           /\ \A j \in LeftOut :
                LET r == RelevanceOf(categories[j], text).relevance
                IN  /\ \A i \in 1..Len(value) : r <= value[i].relevance
                    /\ r > 0 => Len(value) = 3

\* C22 witness: three rows are returned, and a row whose relevance is above 0
\* and below that of the third is left out.
C22_Witness ==
  /\ suggestions # <<>>
  /\ ~suggestions[1].threw
  /\ Len(suggestions[1].value) = 3
  /\ \E j \in LeftOut :
        /\ RelevanceOf(categories[j], text).relevance > 0
        /\ RelevanceOf(categories[j], text).relevance < suggestions[1].value[3].relevance

----------------------------------------------------------------------------
(* The Category routes: POST /api/categories, PATCH and DELETE              *)
(* /api/categories/{id}.  categories holds the rows [id, name, color] in    *)
(* the order of their creation; a row of journals is [id, userId, title,    *)
(* categoryId], categoryId being <<>> for null.                              *)

Roles == {"USER", "ADMIN"}

UserIds == {"u1", "u2", "u3"}

\* the sessions getServerSession returns to a data route: none, one without a
\* user, or one of a user, with the id and the role it was given at sign-in
Callers ==
  {[present |-> FALSE, user |-> <<>>], [present |-> TRUE, user |-> <<>>]}
    \cup {[present |-> TRUE, user |-> <<[id |-> i, role |-> r]>>] : i \in UserIds, r \in Roles}

IsAdmin(session) == IsAuthenticated(session) /\ session.user[1].role = "ADMIN"

HexDigits == Digits \cup {"a", "b", "c", "d", "e", "f", "A", "B", "C", "D", "E", "F"}

\* /^#([0-9A-F]{6})$/i
IsHexColor(c) == Len(c) = 7 /\ c[1] = "#" /\ \A i \in 2..7 : c[i] \in HexDigits

DefaultColor == <<"#","3","b","8","2","f","6">>

\* request bodies: not JSON, or an object with name and color present or not
CategoryBodies ==
  {[kind |-> "malformed", name |-> <<>>, color |-> <<>>],
   [kind |-> "object", name |-> <<<<"J","o","b">>>>, color |-> <<<<"r","e","d">>>>]}
    \cup {[kind |-> "object", name |-> n, color |-> c] :
            n \in {<<>>, <<<<>>>>, <<<<"W","o","r","k">>>>, <<<<"J","o","b">>>>}, c \in {<<>>,
                                     <<<<"#","F","F","0","0","0","0">>>>}}

categorySchema(body) ==
  /\ body.kind = "object"
  /\ body.name # <<>> /\ Len(body.name[1]) >= 1
  /\ (body.color = <<>> \/ IsHexColor(body.color[1]))

categoryUpdateSchema(body) ==
  /\ body.kind = "object"
  /\ (body.name = <<>> \/ Len(body.name[1]) >= 1)
  /\ (body.color = <<>> \/ IsHexColor(body.color[1]))

IdsOf(rows) == {rows[i].id : i \in 1..Len(rows)}

\* the id of a new row: one that no row has
NewId(rows) == CHOOSE i \in 1..(Len(rows) + 1) : i \notin IdsOf(rows)

\* findUnique({where: {id}}) and findUnique({where: {name}}): the indices found
CategoryById(rows, id) == {i \in 1..Len(rows) : <<rows[i].id>> = id}

CategoryByName(rows, name) == {i \in 1..Len(rows) : rows[i].name = name}

\* POST /api/categories: the status and the table afterwards
CategoriesPOST(session, body, rows) ==
  IF ~IsAuthenticated(session) THEN [status |-> 401, categories |-> rows]
  ELSE IF session.user[1].role # "ADMIN" THEN [status |-> 403, categories |-> rows]
  ELSE IF body.kind = "malformed" THEN [status |-> 500, categories |-> rows]
  ELSE IF ~categorySchema(body) THEN [status |-> 400, categories |-> rows]
  ELSE IF CategoryByName(rows, body.name[1]) # {} THEN [status |-> 400, categories |-> rows]
  ELSE [status |-> 201,
        categories |-> Append(rows, [id |-> NewId(rows), name |-> body.name[1],
                                     color |-> IF body.color = <<>> THEN DefaultColor
                                               ELSE body.color[1]])]

\* PATCH /api/categories/{id}; id is <<>> when the path ends in a slash
CategoryPATCH(session, id, body, rows) ==
  IF ~IsAuthenticated(session) THEN [status |-> 401, categories |-> rows]
  ELSE IF session.user[1].role # "ADMIN" THEN [status |-> 403, categories |-> rows]
  ELSE IF id = <<>> THEN [status |-> 400, categories |-> rows]
  ELSE IF body.kind = "malformed" THEN [status |-> 500, categories |-> rows]
  ELSE IF ~categoryUpdateSchema(body) THEN [status |-> 400, categories |-> rows]
  ELSE IF CategoryById(rows, id) = {} THEN [status |-> 404, categories |-> rows]
  ELSE LET i == CHOOSE i \in CategoryById(rows, id) : TRUE
       IN  IF /\ body.name # <<>>
              /\ body.name[1] # rows[i].name
              /\ CategoryByName(rows, body.name[1]) # {}
           THEN [status |-> 400, categories |-> rows]
           ELSE [status |-> 200,
                 categories |->
                   [rows EXCEPT ![i] =
                      [id |-> rows[i].id,
                       name |-> IF body.name # <<>> THEN body.name[1] ELSE rows[i].name,
                       color |-> IF body.color # <<>> THEN body.color[1]
                                 ELSE rows[i].color]]]

\* the rows of s other than the one at index i
RemoveAt(s, i) == SubSeq(s, 1, i - 1) \o SubSeq(s, i + 1, Len(s))

\* the journals after the category id was deleted: the optional relation sets
\* categoryId to null
SetNullCategory(rows, id) ==
  {[j EXCEPT !.categoryId = IF j.categoryId = id THEN <<>> ELSE j.categoryId] : j \in rows}

CategoryDELETE_NoRoleCheck(session, id, rows, journalRows) ==
  IF ~IsAuthenticated(session)
  THEN [status |-> 401, categories |-> rows, journals |-> journalRows]
  ELSE IF id = <<>> THEN [status |-> 400, categories |-> rows, journals |-> journalRows]
  ELSE IF CategoryById(rows, id) = {}
  THEN [status |-> 404, categories |-> rows, journals |-> journalRows]
  ELSE [status |-> 200,
        categories |-> RemoveAt(rows, CHOOSE i \in CategoryById(rows, id) : TRUE),
        journals |-> SetNullCategory(journalRows, id)]

\* DELETE /api/categories/{id}
CategoryDELETE(session, id, rows, journalRows) ==
  IF ~IsAuthenticated(session)
  THEN [status |-> 401, categories |-> rows, journals |-> journalRows]
  ELSE IF session.user[1].role # "ADMIN"
  THEN [status |-> 403, categories |-> rows, journals |-> journalRows]
  ELSE IF id = <<>> THEN [status |-> 400, categories |-> rows, journals |-> journalRows]
  ELSE IF CategoryById(rows, id) = {}
  THEN [status |-> 404, categories |-> rows, journals |-> journalRows]
  ELSE [status |-> 200,
        categories |-> RemoveAt(rows, CHOOSE i \in CategoryById(rows, id) : TRUE),
        journals |-> SetNullCategory(journalRows, id)]

\* the tables as a request finds them
Tables ==
  [categories |-> categories, users |-> users, journals |-> journals, tags |-> tags,
   links |-> links]

analysisVars == <<text, sentiment, themes, suggestions, request, response, io, again, tally>>

\* the id of the path: none, or one of the ids a row can have
CategoryIdParams == {<<>>} \cup {<<i>> : i \in 1..2}

CategoryAnswered(method, session, id, body, r, journalRows) ==
  /\ categories' = r.categories
  /\ journals' = journalRows
  /\ reply' = <<[route |-> "categories", method |-> method, session |-> session,
                 id |-> id, body |-> body, status |-> r.status, result |-> <<>>,
                 before |-> Tables]>>
  /\ UNCHANGED <<analysisVars, users, tags, links, calls, form>>

PostCategory(session, body) ==
  CategoryAnswered("POST", session, <<>>, <<body>>,
                   CategoriesPOST(session, body, categories), journals)

PatchCategory(session, id, body) ==
  CategoryAnswered("PATCH", session, id, <<body>>,
                   CategoryPATCH(session, id, body, categories), journals)

DeleteCategoryAnswered(session, id, r) ==
  CategoryAnswered("DELETE", session, id, <<>>, r, r.journals)

DeleteCategory(session, id) ==
  DeleteCategoryAnswered(session, id, CategoryDELETE(session, id, categories, journals))

InitCategoryApi ==
  /\ \/ categories = <<>> /\ journals = {}
     \/ /\ categories = <<[id |-> 1, name |-> <<"W","o","r","k">>, color |-> DefaultColor]>>
        /\ journals \in {{}, {[id |-> 1, userId |-> "u1", title |-> "a",
                                categoryId |-> <<1>>]}}
  /\ users = {}
  /\ tags = {}
  /\ links = {}
  /\ reply = <<>>
  /\ calls = <<>>
  /\ form = <<>>
  /\ text = <<>>
  /\ sentiment = <<>>
  /\ themes = <<>>
  /\ suggestions = <<>>
  /\ request = <<>>
  /\ response = <<>>
  /\ io = <<>>
  /\ again = <<>>
  /\ tally = <<>>

NextCategoryApi ==
  \/ \E session \in Sessions, body \in CategoryBodies : PostCategory(session, body)
  \/ \E session \in Sessions, id \in CategoryIdParams, body \in CategoryBodies :
       PatchCategory(session, id, body)
  \/ \E session \in Sessions, id \in CategoryIdParams : DeleteCategory(session, id)

SpecCategoryApi == InitCategoryApi /\ [][NextCategoryApi]_vars

\* C16: whatever requests came before, a request to a Category route changes
\* the Category table only if its session carries the role ADMIN, and a POST,
\* PATCH or DELETE by a signed-in caller of another role gets 403 and leaves
\* the table as it was.
C16_CategoriesChangedByAdminsOnly ==
  (reply # <<>> /\ reply[1].route = "categories")
    => /\ (categories # reply[1].before.categories) => IsAdmin(reply[1].session)
       /\ (IsAuthenticated(reply[1].session) /\ ~IsAdmin(reply[1].session))
            => (reply[1].status = 403 /\ categories = reply[1].before.categories)

\* C16 witness: a signed-in USER asked to delete a category that exists and
\* got 403.
C16_Witness ==
  /\ reply # <<>>
  /\ reply[1].route = "categories"
  /\ reply[1].method = "DELETE"
  /\ IsAuthenticated(reply[1].session)
  /\ reply[1].session.user[1].role = "USER"
  /\ CategoryById(reply[1].before.categories, reply[1].id) # {}
  /\ reply[1].status = 403

----------------------------------------------------------------------------
(* POST /api/categories step by step: the handler awaits findUnique and     *)
(* then create, and another request can run between the two.  A call is     *)
(* [session, body, pc, status, error]; pc is "findUnique", "create" or      *)
(* "done".                                                                   *)

CategoryExists == "Category with this name already exists"

\* the bodies of the requests that race
RaceBodies ==
  {b \in CategoryBodies : b.color = <<>> \/ b.kind = "malformed"}

\* the call after the session, the role and the body were checked
CategoryPostReceived(session, body) ==
  IF ~IsAuthenticated(session)
  THEN [session |-> session, body |-> body, pc |-> "done", status |-> 401,
        error |-> "Unauthorized"]
  ELSE IF session.user[1].role # "ADMIN"
  THEN [session |-> session, body |-> body, pc |-> "done", status |-> 403,
        error |-> "Unauthorized"]
  ELSE IF body.kind = "malformed"
  THEN [session |-> session, body |-> body, pc |-> "done", status |-> 500,
        error |-> "Failed to create category"]
  ELSE IF ~categorySchema(body)
  THEN [session |-> session, body |-> body, pc |-> "done", status |-> 400,
        error |-> "Invalid input"]
  ELSE [session |-> session, body |-> body, pc |-> "findUnique", status |-> 0,
        error |-> ""]

\* the call after prisma.category.findUnique({where: {name}}) on rows
CategoryPostFound(call, rows) ==
  IF CategoryByName(rows, call.body.name[1]) # {}
  THEN [call EXCEPT !.pc = "done", !.status = 400, !.error = CategoryExists]
  ELSE [call EXCEPT !.pc = "create"]

\* the call after prisma.category.create on rows: name is @unique, and create
\* throws when a row has the name
CategoryPostCreated(call, rows) ==
  IF CategoryByName(rows, call.body.name[1]) # {}
  THEN [call EXCEPT !.pc = "done", !.status = 500, !.error = "Failed to create category"]
  ELSE [call EXCEPT !.pc = "done", !.status = 201]

\* the table after that create
CategoryCreatedRows(call, rows) ==
  IF CategoryByName(rows, call.body.name[1]) # {} THEN rows
  ELSE Append(rows, [id |-> NewId(rows), name |-> call.body.name[1],
                     color |-> IF call.body.color = <<>> THEN DefaultColor
                               ELSE call.body.color[1]])

raceFrame == <<analysisVars, users, journals, tags, links, reply, form>>

ReceiveCategoryPost(session, body) ==
  /\ Len(calls) < MaxCalls
  /\ calls' = Append(calls, CategoryPostReceived(session, body))
  /\ UNCHANGED <<categories, raceFrame>>

FindUniqueCategory(c) ==
  /\ calls[c].pc = "findUnique"
  /\ calls' = [calls EXCEPT ![c] = CategoryPostFound(calls[c], categories)]
  /\ UNCHANGED <<categories, raceFrame>>

CreateCategory(c) ==
  /\ calls[c].pc = "create"
  /\ calls' = [calls EXCEPT ![c] = CategoryPostCreated(calls[c], categories)]
  /\ categories' = CategoryCreatedRows(calls[c], categories)
  /\ UNCHANGED raceFrame

NextCategoryRace ==
  \/ \E session \in Sessions, body \in RaceBodies : ReceiveCategoryPost(session, body)
  \/ \E c \in 1..Len(calls) : FindUniqueCategory(c)
  \/ \E c \in 1..Len(calls) : CreateCategory(c)

SpecCategoryRace == InitCategoryApi /\ [][NextCategoryRace]_vars

\* C24: however the POST requests of admins for one name interleave, at most
\* one category has the name, and every such request that did not create it is
\* answered 400 "Category with this name already exists".
C24_OneCreatedOthersGet400 ==
  /\ \A i, j \in 1..Len(categories) : categories[i].name = categories[j].name => i = j
  /\ \A c \in 1..Len(calls) :
       (calls[c].pc = "done" /\ IsAdmin(calls[c].session) /\ categorySchema(calls[c].body))
         => \/ calls[c].status = 201
            \/ calls[c].status = 400 /\ calls[c].error = CategoryExists

----------------------------------------------------------------------------
(* The Journal routes: GET and POST /api/journals, GET, PATCH and DELETE    *)
(* /api/journals/{id}.  A row of journals is [id, userId, title,            *)
(* categoryId]; content is validated and stored like title and is not kept  *)
(* apart.  A tag is known by its name, which is unique; a row of links is   *)
(* [journalId, tag].                                                         *)

\* request bodies: not JSON, or an object with title and tags present or not
JournalBodies ==
  {[kind |-> "malformed", title |-> <<>>, tags |-> <<>>]}
    \cup {[kind |-> "object", title |-> t[1], tags |-> t[2]] :
            t \in {<< <<"">>, <<>> >>, << <<"t">>, <<>> >>, << <<"s">>, << <<"a">> >> >>,
                   << <<"s">>, << <<"a", "a">> >> >>, << <<>>, << <<>> >> >>,
                   << <<>>, << <<"a", "a">> >> >>}}

\* journalSchema: title (and content) a string of at least one character
journalSchema(body) ==
  body.kind = "object" /\ body.title # <<>> /\ Len(body.title[1]) >= 1

\* journalUpdateSchema: every field optional
journalUpdateSchema(body) ==
  body.kind = "object" /\ (body.title = <<>> \/ Len(body.title[1]) >= 1)

JournalById(rows, id) == {j \in rows : j.id = id}

LinksOf(linkRows, id) == {l \in linkRows : l.journalId = id}

TagsOf(linkRows, id) == {l.tag : l \in LinksOf(linkRows, id)}

Elements(s) == {s[i] : i \in 1..Len(s)}

HasRepeat(s) == \E i, j \in 1..Len(s) : i # j /\ s[i] = s[j]

\* the response without a change of the tables
Unchanged(status, db) ==
  [status |-> status, result |-> {}, journals |-> db.journals, tags |-> db.tags,
   links |-> db.links]

\* GET /api/journals/{id}
JournalGET(session, id, db) ==
  IF ~IsAuthenticated(session) THEN Unchanged(401, db)
  ELSE IF JournalById(db.journals, id) = {} THEN Unchanged(404, db)
  ELSE LET journal == CHOOSE j \in JournalById(db.journals, id) : TRUE
       IN  IF journal.userId # session.user[1].id THEN Unchanged(403, db)
           ELSE [status |-> 200,
                 result |-> {[journal |-> journal, tags |-> TagsOf(db.links, id)]},
                 journals |-> db.journals, tags |-> db.tags, links |-> db.links]

\* the writes of the loop "for (const tagName of tags)" from the i-th name on:
\* the tag is looked up and created when it is missing, then the link is
\* created; a link that exists violates the key (journalId, tagId) and the
\* create throws, which ends the loop
RECURSIVE LinkTags(_, _, _, _)
LinkTags(names, i, id, w) ==
  IF i > Len(names) THEN w
  ELSE LET link == [journalId |-> id, tag |-> names[i]]
           found == [w EXCEPT !.tags = w.tags \cup {names[i]}]
       IN  IF link \in w.links THEN [found EXCEPT !.threw = TRUE]
           ELSE LinkTags(names, i + 1, id, [found EXCEPT !.links = w.links \cup {link}])

\* the writes of the callback of $transaction: the update of the row, then,
\* when tags are given, deleteMany on the links of the journal and the loop
PatchWrites(journal, body, db) ==
  LET updated == [journal EXCEPT !.title = IF body.title # <<>> THEN body.title[1]
                                            ELSE journal.title]
      w == [journals |-> (db.journals \ {journal}) \cup {updated}, tags |-> db.tags,
            links |-> db.links, threw |-> FALSE, updated |-> updated]
  IN  IF body.tags = <<>> THEN w
      ELSE LinkTags(body.tags[1], 1, journal.id,
                    [w EXCEPT !.links = db.links \ LinksOf(db.links, journal.id)])

\* the outcome of the transaction whose writes are w
Committed(id, w) ==
  [status |-> 200,
   result |-> {[journal |-> w.updated, tags |-> TagsOf(w.links, id)]},
   journals |-> w.journals, tags |-> w.tags, links |-> w.links]

JournalPATCH_Transaction_NoRollback(journal, body, db) ==
  LET w == PatchWrites(journal, body, db)
  IN  IF w.threw
      THEN [status |-> 500, result |-> {}, journals |-> w.journals, tags |-> w.tags,
            links |-> w.links]
      ELSE Committed(journal.id, w)

\* the transaction of PATCH.  When a write throws (a name that comes twice in
\* the list), $transaction rolls every write back and the catch block answers
\* 500.
JournalPATCH_Transaction(journal, body, db) ==
  LET w == PatchWrites(journal, body, db)
  IN  IF w.threw THEN Unchanged(500, db) ELSE Committed(journal.id, w)

JournalPATCH_NoOwnerCheck(session, id, body, db) ==
  IF ~IsAuthenticated(session) THEN Unchanged(401, db)
  ELSE IF body.kind = "malformed" THEN Unchanged(500, db)
  ELSE IF ~journalUpdateSchema(body) THEN Unchanged(400, db)
  ELSE IF JournalById(db.journals, id) = {} THEN Unchanged(404, db)
  ELSE JournalPATCH_Transaction(CHOOSE j \in JournalById(db.journals, id) : TRUE,
                                body, db)

\* PATCH /api/journals/{id}
JournalPATCH(session, id, body, db) ==
  IF ~IsAuthenticated(session) THEN Unchanged(401, db)
  ELSE IF body.kind = "malformed" THEN Unchanged(500, db)
  ELSE IF ~journalUpdateSchema(body) THEN Unchanged(400, db)
  ELSE IF JournalById(db.journals, id) = {} THEN Unchanged(404, db)
  ELSE IF (CHOOSE j \in JournalById(db.journals, id) : TRUE).userId # session.user[1].id
  THEN Unchanged(403, db)
  ELSE JournalPATCH_Transaction(CHOOSE j \in JournalById(db.journals, id) : TRUE,
                                body, db)

\* DELETE /api/journals/{id}: the links of the journal go with it (Cascade)
JournalDELETE(session, id, db) ==
  IF ~IsAuthenticated(session) THEN Unchanged(401, db)
  ELSE IF JournalById(db.journals, id) = {} THEN Unchanged(404, db)
  ELSE IF (CHOOSE j \in JournalById(db.journals, id) : TRUE).userId # session.user[1].id
  THEN Unchanged(403, db)
  ELSE [status |-> 200, result |-> {},
        journals |-> db.journals \ JournalById(db.journals, id),
        tags |-> db.tags,
        links |-> db.links \ LinksOf(db.links, id)]

\* GET /api/journals without filters: the journals whose userId is the caller's
JournalsGET(session, db) ==
  IF ~IsAuthenticated(session) THEN Unchanged(401, db)
  ELSE [status |-> 200,
        result |-> {[journal |-> j, tags |-> TagsOf(db.links, j.id)] :
                      j \in {k \in db.journals : k.userId = session.user[1].id}},
        journals |-> db.journals, tags |-> db.tags, links |-> db.links]

\* the id of a new journal: one that no row has
NewJournalId(rows) ==
  CHOOSE i \in 1..(Cardinality(rows) + 1) : \A j \in rows : j.id # i

\* POST /api/journals.  Every name of tags is looked up, and created when it
\* is missing, before the journal is created: the finds of Promise.all are
\* all issued before the first create, so a missing name that comes twice is
\* created once and the second create throws; a known name that comes twice
\* makes the nested create of the links throw.  The tags created stay.
JournalsPOST(session, body, db) ==
  IF ~IsAuthenticated(session) THEN Unchanged(401, db)
  ELSE IF body.kind = "malformed" THEN Unchanged(500, db)
  ELSE IF ~journalSchema(body) THEN Unchanged(400, db)
  ELSE LET names == IF body.tags = <<>> THEN <<>> ELSE body.tags[1]
           newTags == db.tags \cup Elements(names)
           id == NewJournalId(db.journals)
           journal == [id |-> id, userId |-> session.user[1].id, title |-> body.title[1],
                       categoryId |-> <<>>]
       IN  IF HasRepeat(names)
           THEN [status |-> 500, result |-> {}, journals |-> db.journals,
                 tags |-> newTags, links |-> db.links]
           ELSE [status |-> 201,
                 result |-> {[journal |-> journal, tags |-> Elements(names)]},
                 journals |-> db.journals \cup {journal},
                 tags |-> newTags,
                 links |-> db.links \cup {[journalId |-> id, tag |-> n] :
                                            n \in Elements(names)}]

JournalIdParams == 1..(MaxJournals + 1)

\* what a body is to the schemas of the journal routes
BodyClass(body) ==
  IF body.kind = "malformed" THEN "malformed"
  ELSE IF ~journalUpdateSchema(body) THEN "invalid"
  ELSE "valid"

JournalAnswered(method, session, id, body, sent, r) ==
  /\ journals' = r.journals
  /\ tags' = r.tags
  /\ links' = r.links
  /\ reply' = <<[route |-> "journals", method |-> method, session |-> session,
                 id |-> id, body |-> body, sent |-> sent, status |-> r.status,
                 result |-> r.result, before |-> Tables]>>
  /\ UNCHANGED <<analysisVars, categories, users, calls, form>>

GetJournal(session, id) ==
  JournalAnswered("GET", session, <<id>>, <<>>, <<>>, JournalGET(session, id, Tables))

PatchJournal(session, id, body) ==
  JournalAnswered("PATCH", session, <<id>>, <<BodyClass(body)>>, <<>>,
                  JournalPATCH(session, id, body, Tables))

DeleteJournal(session, id) ==
  JournalAnswered("DELETE", session, <<id>>, <<>>, <<>>, JournalDELETE(session, id, Tables))

GetJournals(session) ==
  JournalAnswered("GET", session, <<>>, <<>>, <<>>, JournalsGET(session, Tables))

PostJournal(session, body) ==
  /\ Cardinality(journals) < MaxJournals
  /\ JournalAnswered("POST", session, <<>>, <<BodyClass(body)>>, <<>>,
                     JournalsPOST(session, body, Tables))

InitJournals ==
  /\ users = {[id |-> u.id, role |-> u.role] : u \in Users}
  /\ journals = {}
  /\ tags = {}
  /\ links = {}
  /\ categories = <<>>
  /\ reply = <<>>
  /\ calls = <<>>
  /\ form = <<>>
  /\ text = <<>>
  /\ sentiment = <<>>
  /\ themes = <<>>
  /\ suggestions = <<>>
  /\ request = <<>>
  /\ response = <<>>
  /\ io = <<>>
  /\ again = <<>>
  /\ tally = <<>>

NextJournals ==
  \/ \E session \in Sessions, id \in JournalIdParams : GetJournal(session, id)
  \/ \E session \in Sessions, id \in JournalIdParams, body \in JournalBodies :
       PatchJournal(session, id, body)
  \/ \E session \in Sessions, id \in JournalIdParams : DeleteJournal(session, id)
  \/ \E session \in Sessions : GetJournals(session)
  \/ \E session \in Sessions, body \in JournalBodies : PostJournal(session, body)

SpecJournals == InitJournals /\ [][NextJournals]_vars

----------------------------------------------------------------------------
(* The writes of the Journal routes to the tags: PATCH /api/journals/{id}   *)
(* and POST /api/journals with the body kept in the reply (sent), and       *)
(* DELETE.                                                                   *)

\* request bodies with and without a tags list; a list has no name twice, a
\* known or a new name twice, or is empty
TagBodies ==
  {[kind |-> "object", title |-> t[1], tags |-> t[2]] :
     t \in {<< <<"t">>, <<>> >>, << <<"s">>, << <<"a">> >> >>,
            << <<"s">>, << <<"a", "a">> >> >>, << <<>>, << <<>> >> >>,
            << <<"t">>, << <<"b", "a", "b">> >> >>}}

\* the callers of these requests: nobody, or a signed-in user
TagCallers == {s \in Sessions : s.present => s.user # <<>>}

PatchTags(session, id, body) ==
  JournalAnswered("PATCH", session, <<id>>, <<BodyClass(body)>>, <<body>>,
                  JournalPATCH(session, id, body, Tables))

PostTags(session, body) ==
  /\ Cardinality(journals) < MaxJournals
  /\ JournalAnswered("POST", session, <<>>, <<BodyClass(body)>>, <<body>>,
                     JournalsPOST(session, body, Tables))

NextTags ==
  \/ \E session \in TagCallers, id \in JournalIdParams, body \in TagBodies :
       PatchTags(session, id, body)
  \/ \E session \in TagCallers, body \in TagBodies : PostTags(session, body)
  \/ \E session \in TagCallers, id \in JournalIdParams : DeleteJournal(session, id)

SpecTags == InitJournals /\ [][NextTags]_vars


\* the id of the signed-in caller of the last data request: <<>> or <<id>>
CallerId == IF IsAuthenticated(reply[1].session) THEN <<reply[1].session.user[1].id>> ELSE <<>>

\* the journals of other users, as the last request found them
JournalsOfOthers == {j \in reply[1].before.journals : <<j.userId>> # CallerId}

\* the last request named, by its id, a journal of another user than its
\* signed-in caller
AimedAtJournalOfOther ==
  /\ reply[1].id # <<>>
  /\ CallerId # <<>>
  /\ \E j \in JournalsOfOthers : j.id = reply[1].id[1]

\* no journal of another user was changed or removed, nor were its tag links,
\* and no such journal is in the result
OthersUntouched ==
  /\ \A j \in JournalsOfOthers :
        /\ j \in journals
        /\ LinksOf(links, j.id) = LinksOf(reply[1].before.links, j.id)
  /\ \A x \in reply[1].result : <<x.journal.userId>> = CallerId

\* C17 as stated: whatever journal requests came before, a request returns,
\* changes or deletes only journals whose userId is the id of its session
\* user; GET, PATCH and DELETE of the journal of another user get 403 and leave
\* journals and tag links as they were; GET /api/journals lists only the
\* caller's journals.
C17_OnlyOwnerReachesJournal ==
  (reply # <<>> /\ reply[1].route = "journals")
    => /\ OthersUntouched
       /\ AimedAtJournalOfOther
            => /\ reply[1].status = 403
               /\ journals = reply[1].before.journals
               /\ links = reply[1].before.links

\* C17 amended: the same, except that PATCH validates the body before it looks
\* at the journal: for the journal of another user it answers 500 to a body
\* that is not JSON, 400 to a body the schema rejects, and 403 otherwise.
C17_OwnerOnlyPatchValidatesFirst ==
  (reply # <<>> /\ reply[1].route = "journals")
    => /\ OthersUntouched
       /\ AimedAtJournalOfOther
            => /\ reply[1].status =
                    IF reply[1].method = "PATCH" /\ reply[1].body = <<"malformed">> THEN 500
                    ELSE IF reply[1].method = "PATCH" /\ reply[1].body = <<"invalid">> THEN 400
                    ELSE 403
               /\ journals = reply[1].before.journals
               /\ links = reply[1].before.links

\* C17 witness: a signed-in user sent a valid PATCH for a journal of another
\* user that has a tag link, and got 403.
C17_Witness ==
  /\ reply # <<>>
  /\ reply[1].route = "journals"
  /\ reply[1].method = "PATCH"
  /\ reply[1].body = <<"valid">>
  /\ AimedAtJournalOfOther
  /\ LinksOf(reply[1].before.links, reply[1].id[1]) # {}
  /\ reply[1].status = 403

\* the last request was a PATCH with a tags list that reached the transaction:
\* a valid body, sent by the owner of a journal that exists
PatchedTags ==
  /\ reply # <<>>
  /\ reply[1].route = "journals"
  /\ reply[1].method = "PATCH"
  /\ reply[1].body = <<"valid">>
  /\ reply[1].sent[1].tags # <<>>
  /\ \E j \in reply[1].before.journals :
        j.id = reply[1].id[1] /\ <<j.userId>> = CallerId

\* C25: PATCH /api/journals/{id} with a tags list does all of its writes or
\* none: answered 200, the tags linked to the journal are exactly the names of
\* the list and the title is the one sent; otherwise the answer is 500 and the
\* journals, the tags and the links are as the request found them.
C25_PatchWithTagsIsAtomic ==
  PatchedTags
    => LET id == reply[1].id[1]
           body == reply[1].sent[1]
       IN  IF reply[1].status = 200
           THEN /\ TagsOf(links, id) = Elements(body.tags[1])
                /\ links \ LinksOf(links, id)
                     = reply[1].before.links \ LinksOf(reply[1].before.links, id)
                /\ \A j \in JournalById(journals, id) :
                     body.title # <<>> => j.title = body.title[1]
           ELSE /\ reply[1].status = 500
                /\ journals = reply[1].before.journals
                /\ links = reply[1].before.links
                /\ tags = reply[1].before.tags

\* C25 witness: a journal with the title "s" and the tag "a" was sent the title
\* "t" and the list b, a, b: the second b fails after the title, the removal of
\* the links and two new links were written, and the answer is 500.
C25_Witness ==
  /\ PatchedTags
  /\ reply[1].status = 500
  /\ reply[1].sent[1].title = <<"t">>
  /\ reply[1].sent[1].tags = << <<"b", "a", "b">> >>
  /\ TagsOf(reply[1].before.links, reply[1].id[1]) = {"a"}
  /\ "b" \notin reply[1].before.tags
  /\ \E j \in reply[1].before.journals : j.id = reply[1].id[1] /\ j.title = "s"

\* C25 second witness: a list without a repeat replaced the tags of a journal.
C25_WitnessCommitted ==
  /\ PatchedTags
  /\ reply[1].status = 200
  /\ TagsOf(reply[1].before.links, reply[1].id[1]) # TagsOf(links, reply[1].id[1])

\* C26: a POST /api/journals that is answered 500 leaves the journals, the
\* tags and the links as it found them.
C26_FailedPostLeavesTablesAlone ==
  (reply # <<>> /\ reply[1].route = "journals" /\ reply[1].method = "POST"
     /\ reply[1].status = 500)
    => /\ journals = reply[1].before.journals
       /\ tags = reply[1].before.tags
       /\ links = reply[1].before.links

----------------------------------------------------------------------------
(* The admin route of the users: GET, PUT and DELETE /api/admin/users.  A   *)
(* row of users is [id, role].                                               *)

UserById(rows, id) == {u \in rows : u.id = id}

\* the response without a change of the tables
SameUsers(status, db) ==
  [status |-> status, result |-> {}, users |-> db.users, journals |-> db.journals,
   links |-> db.links]

\* GET /api/admin/users
AdminUsersGET(session, db) ==
  IF ~IsAdmin(session) THEN SameUsers(403, db)
  ELSE [status |-> 200, result |-> db.users, users |-> db.users,
        journals |-> db.journals, links |-> db.links]

\* request bodies of PUT: not JSON, or an object with id and role present or
\* not; "OWNER" is no value of the role enum
UserBodies ==
  {[kind |-> "malformed", id |-> <<>>, role |-> <<>>]}
    \cup {[kind |-> "object", id |-> i, role |-> r] :
            i \in {<<>>} \cup {<<u>> : u \in UserIds},
            r \in {<<>>, <<"USER">>, <<"ADMIN">>, <<"OWNER">>}}

userUpdateSchema(body) ==
  /\ body.kind = "object"
  /\ body.id # <<>>
  /\ (body.role = <<>> \/ body.role[1] \in Roles)

\* PUT /api/admin/users: prisma.user.update throws when no row has the id
AdminUsersPUT(session, body, db) ==
  IF ~IsAdmin(session) THEN SameUsers(403, db)
  ELSE IF body.kind = "malformed" THEN SameUsers(500, db)
  ELSE IF ~userUpdateSchema(body) THEN SameUsers(400, db)
  ELSE IF UserById(db.users, body.id[1]) = {} THEN SameUsers(500, db)
  ELSE LET user == CHOOSE u \in UserById(db.users, body.id[1]) : TRUE
           updatedUser == [user EXCEPT !.role = IF body.role # <<>> THEN body.role[1]
                                                ELSE user.role]
       IN  [status |-> 200, result |-> {updatedUser},
            users |-> (db.users \ {user}) \cup {updatedUser},
            journals |-> db.journals, links |-> db.links]

\* the tables after the user id was deleted: the journals of the user and the
\* tag links of these journals go with the row (Cascade)
UserDeleted(id, db) ==
  LET gone == {j \in db.journals : j.userId = id}
  IN  [status |-> 200, result |-> {},
       users |-> db.users \ UserById(db.users, id),
       journals |-> db.journals \ gone,
       links |-> {l \in db.links : \A j \in gone : l.journalId # j.id}]

AdminUsersDELETE_NoSelfCheck(session, id, db) ==
  IF ~IsAdmin(session) THEN SameUsers(403, db)
  ELSE IF id = <<>> THEN SameUsers(400, db)
  ELSE IF UserById(db.users, id[1]) = {} THEN SameUsers(500, db)
  ELSE UserDeleted(id[1], db)

\* DELETE /api/admin/users?id=...; id is <<>> when the parameter is missing
\* or empty; prisma.user.delete throws when no row has the id
AdminUsersDELETE(session, id, db) ==
  IF ~IsAdmin(session) THEN SameUsers(403, db)
  ELSE IF id = <<>> THEN SameUsers(400, db)
  ELSE IF id[1] = session.user[1].id THEN SameUsers(400, db)
  ELSE IF UserById(db.users, id[1]) = {} THEN SameUsers(500, db)
  ELSE UserDeleted(id[1], db)

UserIdParams == {<<>>} \cup {<<u>> : u \in UserIds}

AdminUsersAnswered(method, session, id, body, r) ==
  /\ users' = r.users
  /\ journals' = r.journals
  /\ links' = r.links
  /\ reply' = <<[route |-> "users", method |-> method, session |-> session,
                 id |-> id, body |-> body, status |-> r.status, result |-> r.result,
                 before |-> Tables]>>
  /\ UNCHANGED <<analysisVars, categories, tags, calls, form>>

GetUsers(session) ==
  AdminUsersAnswered("GET", session, <<>>, <<>>, AdminUsersGET(session, Tables))

PutUser(session, body) ==
  AdminUsersAnswered("PUT", session, <<>>, <<body>>, AdminUsersPUT(session, body, Tables))

DeleteUser(session, id) ==
  AdminUsersAnswered("DELETE", session, id, <<>>, AdminUsersDELETE(session, id, Tables))

\* the users, one of them with a journal that has a tag link
InitUsers ==
  /\ users \in {{[id |-> "u1", role |-> "USER"], [id |-> "u2", role |-> "ADMIN"],
                  [id |-> "u3", role |-> r]} : r \in Roles}
  /\ journals = {[id |-> 1, userId |-> "u3", title |-> "s", categoryId |-> <<>>]}
  /\ tags = {"a"}
  /\ links = {[journalId |-> 1, tag |-> "a"]}
  /\ categories = <<>>
  /\ reply = <<>>
  /\ calls = <<>>
  /\ form = <<>>
  /\ text = <<>>
  /\ sentiment = <<>>
  /\ themes = <<>>
  /\ suggestions = <<>>
  /\ request = <<>>
  /\ response = <<>>
  /\ io = <<>>
  /\ again = <<>>
  /\ tally = <<>>

NextUsers ==
  \/ \E session \in Callers : GetUsers(session)
  \/ \E session \in Callers, body \in UserBodies : PutUser(session, body)
  \/ \E session \in Callers, id \in UserIdParams : DeleteUser(session, id)

SpecUsers == InitUsers /\ [][NextUsers]_vars

\* C18: DELETE /api/admin/users never deletes the account of the admin who
\* asks: with the id of the session user it answers 400 and leaves the User
\* table as it was; to a caller who is no admin it answers 403 and deletes
\* nothing.
C18_AdminNeverDeletesSelf ==
  (reply # <<>> /\ reply[1].route = "users" /\ reply[1].method = "DELETE")
    => /\ \A u \in reply[1].before.users \ users : <<u.id>> # CallerId
       /\ (IsAdmin(reply[1].session) /\ reply[1].id = CallerId)
            => (reply[1].status = 400 /\ users = reply[1].before.users)
       /\ ~IsAdmin(reply[1].session)
            => (reply[1].status = 403 /\ users = reply[1].before.users)

\* C18 witness: an admin whose account is in the table asked for the deletion
\* of this account and got 400.
C18_Witness ==
  /\ reply # <<>>
  /\ reply[1].route = "users"
  /\ reply[1].method = "DELETE"
  /\ IsAdmin(reply[1].session)
  /\ reply[1].id = CallerId
  /\ UserById(reply[1].before.users, reply[1].id[1]) # {}
  /\ reply[1].status = 400

----------------------------------------------------------------------------
(* PUT /api/user/settings, in its two versions: the route of                 *)
(* src/app/api/user/settings (UserSettingsPUT) and the one that validates    *)
(* profile and settings apart (SettingsPUT).  A row of users is here [id,    *)
(* role, name, email, password, settings]; password is a bcrypt hash,        *)
(* settings is <<>> or <<[theme, notifyEmail]>>.                              *)

\* bcrypt.hash(p): a value that bcrypt.compare matches with p and no other
Hash(p) == [bcrypt |-> p]

\* the field is present and is not the empty string
Truthy(field) == field # <<>> /\ field[1] # <<>>

\* z.string().email(): a local part, an @, and a domain with a dot inside
IsEmail(e) ==
  \E i \in 2..(Len(e) - 3) :
    /\ e[i] = "@"
    /\ \A j \in 1..Len(e) : e[j] = "@" => j = i
    /\ \E j \in (i + 2)..(Len(e) - 1) : e[j] = "."

Themes == {"light", "dark", "system"}

settingsSchema(s) == s.theme \in Themes /\ s.notifyEmail \in BOOLEAN

\* profileSchema of user/settings/route.ts: a new password has 6 characters
profileSchema(p) ==
  /\ Len(p.name) >= 1
  /\ IsEmail(p.email)
  /\ (p.password = <<>> \/ Len(p.password[1]) >= 6)

\* profileSchema of the other version: no least length of the password
profileSchemaAnyLength(p) == Len(p.name) >= 1 /\ IsEmail(p.email)

requestSchema(body) ==
  /\ body.kind = "object"
  /\ (body.profile = <<>> \/ profileSchema(body.profile[1]))
  /\ (body.settings = <<>> \/ settingsSchema(body.settings[1]))

OldPassword == <<"s","e","c","r","e","t","1">>

\* the profiles sent: every pairing of a current password (none, empty, right,
\* wrong) with a new one (none, empty, long, short), and a name or an email
\* that is invalid or taken
Profiles ==
  {[name |-> <<"m">>, email |-> <<"c","@","x",".","i","o">>, currentPassword |-> cp, password |-> pw] :
     cp \in {<<>>, <<<<>>>>, <<OldPassword>>, <<<<"w","r","o","n","g","1","2">>>>},
     pw \in {<<>>, <<<<>>>>, <<<<"n","e","w","p","a","s","s">>>>, <<<<"s","h","o","r","t">>>>}}
    \cup {[name |-> n[1], email |-> n[2], currentPassword |-> cp,
           password |-> <<<<"n","e","w","p","a","s","s">>>>] :
            n \in {<<<<>>, <<"c","@","x",".","i","o">>>>, <<<<"m">>, <<"c","x",".","i","o">>>>, <<<<"m">>,
                           <<"b","@","x",".","i","o">>>>},
            cp \in {<<OldPassword>>, <<<<"w","r","o","n","g","1","2">>>>}}

SettingsBodies ==
  {[kind |-> "malformed", profile |-> <<>>, settings |-> <<>>]}
    \cup {[kind |-> "object", profile |-> p, settings |-> s] :
            p \in {<<>>} \cup {<<q>> : q \in Profiles},
            s \in {<<>>, <<[theme |-> "dark", notifyEmail |-> TRUE]>>,
                   <<[theme |-> "blue", notifyEmail |-> TRUE]>>}}

\* the sessions: none, one without an email, one of a@x.io or of c@x.io
SettingsCallers ==
  {[present |-> FALSE, user |-> <<>>], [present |-> TRUE, user |-> <<>>]}
    \cup {[present |-> TRUE, user |-> <<[email |-> e]>>] : e \in {<<"a","@","x",".","i","o">>,
                                                                  <<"c","@","x",".","i","o">>}}

HasEmail(session) == session.present /\ session.user # <<>>

UserByEmail(rows, email) == {u \in rows : u.email = email}

\* the response without a change of the table
SameProfile(status, rows) == [status |-> status, users |-> rows]

\* the row after prisma.user.update with the profile p, and what came of it:
\* "wrong" when bcrypt.compare fails, "taken" when the update throws because
\* another row has the email (email is @unique)
ProfileUpdated_NoCompare(user, p, rows) ==
  LET named == [user EXCEPT !.name = p.name, !.email = p.email]
      taken == \E u \in rows : u.id # user.id /\ u.email = p.email
  IN  IF Truthy(p.currentPassword) /\ Truthy(p.password)
      THEN IF taken THEN [outcome |-> "taken", user |-> user]
           ELSE [outcome |-> "ok", user |-> [named EXCEPT !.password = Hash(p.password[1])]]
      ELSE IF taken THEN [outcome |-> "taken", user |-> user]
           ELSE [outcome |-> "ok", user |-> named]

ProfileUpdated(user, p, rows) ==
  LET named == [user EXCEPT !.name = p.name, !.email = p.email]
      taken == \E u \in rows : u.id # user.id /\ u.email = p.email
  IN  IF Truthy(p.currentPassword) /\ Truthy(p.password)
      THEN IF user.password # Hash(p.currentPassword[1])
           THEN [outcome |-> "wrong", user |-> user]
           ELSE IF taken THEN [outcome |-> "taken", user |-> user]
           ELSE [outcome |-> "ok", user |-> [named EXCEPT !.password = Hash(p.password[1])]]
      ELSE IF taken THEN [outcome |-> "taken", user |-> user]
           ELSE [outcome |-> "ok", user |-> named]

\* the row after the settings s were updated or created
SettingsUpdated(user, s) == [user EXCEPT !.settings = <<s>>]

\* the rows with the row of the id of user replaced by user
WithUser(rows, user) == {u \in rows : u.id # user.id} \cup {user}

\* PUT of src/app/api/user/settings/route.ts, for the user it found
UserSettingsPUT_Found(user, body, rows, updated) ==
  IF updated.outcome = "wrong" THEN SameProfile(400, rows)
  ELSE IF updated.outcome = "taken" THEN SameProfile(500, rows)
  ELSE [status |-> 200,
        users |-> WithUser(rows, IF body.settings = <<>> THEN updated.user
                                 ELSE SettingsUpdated(updated.user, body.settings[1]))]

UserSettingsPUT(session, body, rows) ==
  IF ~HasEmail(session) THEN SameProfile(401, rows)
  ELSE IF body.kind = "malformed" THEN SameProfile(500, rows)
  ELSE IF ~requestSchema(body) THEN SameProfile(400, rows)
  ELSE IF UserByEmail(rows, session.user[1].email) = {} THEN SameProfile(404, rows)
  ELSE LET user == CHOOSE u \in UserByEmail(rows, session.user[1].email) : TRUE
       IN  UserSettingsPUT_Found(user, body, rows,
             IF body.profile = <<>> THEN [outcome |-> "ok", user |-> user]
             ELSE ProfileUpdated(user, body.profile[1], rows))

\* PUT of the other version, for the user it found: the profile is validated
\* and written before the settings are validated, so a request with invalid
\* settings is answered 400 after its profile was written
SettingsPUT_Found(user, body, rows, updated) ==
  IF updated.outcome = "invalid" THEN SameProfile(400, rows)
  ELSE IF updated.outcome = "wrong" THEN SameProfile(400, rows)
  ELSE IF updated.outcome = "taken" THEN SameProfile(500, rows)
  ELSE IF body.settings = <<>> THEN [status |-> 200, users |-> WithUser(rows, updated.user)]
  ELSE IF ~settingsSchema(body.settings[1])
  THEN [status |-> 400, users |-> WithUser(rows, updated.user)]
  ELSE [status |-> 200,
        users |-> WithUser(rows, SettingsUpdated(updated.user, body.settings[1]))]

SettingsPUT(session, body, rows) ==
  IF ~HasEmail(session) THEN SameProfile(401, rows)
  ELSE IF body.kind = "malformed" THEN SameProfile(500, rows)
  ELSE IF UserByEmail(rows, session.user[1].email) = {} THEN SameProfile(404, rows)
  ELSE LET user == CHOOSE u \in UserByEmail(rows, session.user[1].email) : TRUE
       IN  SettingsPUT_Found(user, body, rows,
             IF body.profile = <<>> THEN [outcome |-> "ok", user |-> user]
             ELSE IF ~profileSchemaAnyLength(body.profile[1])
             THEN [outcome |-> "invalid", user |-> user]
             ELSE ProfileUpdated(user, body.profile[1], rows))

SettingsAnswered(route, session, body, r) ==
  /\ users' = r.users
  /\ reply' = <<[route |-> route, method |-> "PUT", session |-> session, id |-> <<>>,
                 body |-> <<body>>, status |-> r.status, result |-> {},
                 before |-> Tables]>>
  /\ UNCHANGED <<analysisVars, categories, journals, tags, links, calls, form>>

PutUserSettings(session, body) ==
  SettingsAnswered("user/settings", session, body, UserSettingsPUT(session, body, users))

PutSettings(session, body) ==
  SettingsAnswered("settings", session, body, SettingsPUT(session, body, users))

\* two users with their sign-up passwords and no settings yet
InitSettings ==
  /\ users = {[id |-> "u1", role |-> "USER", name |-> <<"n">>, email |-> <<"a","@","x",".","i","o">>,
               password |-> Hash(OldPassword), settings |-> <<>>],
              [id |-> "u2", role |-> "ADMIN", name |-> <<"o">>, email |-> <<"b","@","x",".","i","o">>,
               password |-> Hash(<<"s","e","c","r","e","t","2">>), settings |-> <<>>]}
  /\ journals = {}
  /\ tags = {}
  /\ links = {}
  /\ categories = <<>>
  /\ reply = <<>>
  /\ calls = <<>>
  /\ form = <<>>
  /\ text = <<>>
  /\ sentiment = <<>>
  /\ themes = <<>>
  /\ suggestions = <<>>
  /\ request = <<>>
  /\ response = <<>>
  /\ io = <<>>
  /\ again = <<>>
  /\ tally = <<>>

NextSettings ==
  \/ \E session \in SettingsCallers, body \in SettingsBodies : PutUserSettings(session, body)
  \/ \E session \in SettingsCallers, body \in SettingsBodies : PutSettings(session, body)

SpecSettings == InitSettings /\ [][NextSettings]_vars

\* the last request was a PUT of the settings by a caller whose user exists
SettingsPutFound ==
  /\ reply # <<>>
  /\ reply[1].route \in {"user/settings", "settings"}
  /\ HasEmail(reply[1].session)
  /\ UserByEmail(reply[1].before.users, reply[1].session.user[1].email) # {}

\* the row of the caller as the request found it, and as it is now
CallerBefore ==
  CHOOSE u \in UserByEmail(reply[1].before.users, reply[1].session.user[1].email) : TRUE

CallerNow == CHOOSE u \in users : u.id = CallerBefore.id

\* the profile of the body of the last request: <<>> or <<p>>
SentProfile == reply[1].body[1].profile

SameNameEmailPassword ==
  /\ CallerNow.name = CallerBefore.name
  /\ CallerNow.email = CallerBefore.email
  /\ CallerNow.password = CallerBefore.password

\* the password changes only when a new password came with the right current one
PasswordChangeNeedsCurrent ==
  CallerNow.password # CallerBefore.password
    => /\ SentProfile # <<>>
       /\ Truthy(SentProfile[1].password)
       /\ Truthy(SentProfile[1].currentPassword)
       /\ Hash(SentProfile[1].currentPassword[1]) = CallerBefore.password
       /\ CallerNow.password = Hash(SentProfile[1].password[1])

\* a new password without a current one changes no password
NewPasswordAloneChangesNothing ==
  (SentProfile # <<>> /\ SentProfile[1].password # <<>>
     /\ SentProfile[1].currentPassword = <<>>)
    => CallerNow.password = CallerBefore.password

\* the current password sent is not the stored one
WrongCurrentPassword ==
  /\ SentProfile # <<>>
  /\ SentProfile[1].currentPassword # <<>>
  /\ Hash(SentProfile[1].currentPassword[1]) # CallerBefore.password

\* C27 as stated: PUT /api/user/settings changes the stored password only when
\* the request carries a new password and a currentPassword that matches the
\* stored one; a wrong currentPassword is answered 400 and leaves name, email
\* and password as they were; a new password without currentPassword changes
\* no password.
C27_WrongCurrentPasswordIs400 ==
  SettingsPutFound
    => /\ PasswordChangeNeedsCurrent
       /\ NewPasswordAloneChangesNothing
       /\ WrongCurrentPassword => (reply[1].status = 400 /\ SameNameEmailPassword)

\* C27 amended: the current password is compared only when a new password
\* that is not empty comes with it: then a wrong one is answered 400 and
\* leaves name, email and password as they were.  A wrong current password
\* that comes without a new password is not looked at: the password stays, and
\* a valid request of this kind is answered 200 with name and email updated.
C27_CurrentPasswordCheckedWithNewOne ==
  SettingsPutFound
    => /\ PasswordChangeNeedsCurrent
       /\ NewPasswordAloneChangesNothing
       /\ (WrongCurrentPassword /\ Truthy(SentProfile[1].currentPassword)
             /\ Truthy(SentProfile[1].password))
            => (reply[1].status = 400 /\ SameNameEmailPassword)
       /\ (WrongCurrentPassword /\ ~Truthy(SentProfile[1].password))
            => /\ CallerNow.password = CallerBefore.password
               /\ reply[1].status = 200
                    => /\ CallerNow.name = SentProfile[1].name
                       /\ CallerNow.email = SentProfile[1].email
               /\ (requestSchema(reply[1].body[1])
                     /\ \A u \in reply[1].before.users :
                          u.email = SentProfile[1].email => u.id = CallerBefore.id)
                    => reply[1].status = 200

\* C27 witness: a valid profile with another name, a new password and a wrong
\* current one was answered 400.
C27_Witness ==
  /\ SettingsPutFound
  /\ requestSchema(reply[1].body[1])
  /\ WrongCurrentPassword
  /\ Truthy(SentProfile[1].currentPassword)
  /\ Truthy(SentProfile[1].password)
  /\ SentProfile[1].name # CallerBefore.name
  /\ reply[1].status = 400

----------------------------------------------------------------------------
(* The new-journal page (dashboard/journals/new/page.tsx): the content      *)
(* field, the auto-analyse switch, the selected tags, the effect that       *)
(* schedules the analysis, the "Analyze now" button and the responses.      *)
(* A content is known by its length.  Time advances in ticks of half a      *)
(* second.  form is <<f>>, f being:                                          *)
(*   content, enabled, selectedTags   the state the page renders            *)
(*   pending    the timers setTimeout holds: [id, left, tags, cause], tags  *)
(*              being the selectedTags of the analyzeContent it will call   *)
(*   ref        analysisDebounceTimerRef.current: <<>> or <<id>>            *)
(*   cleanup    the last run of the effect returned its cleanup function    *)
(*   since      the ticks since the content last changed, up to TimerDelay  *)
(*   inflight   the requests sent and not answered: [n, content, tags, by,  *)
(*              cause], n counting the requests in sending order, cause     *)
(*              being the cause of the timer that sent it                   *)
(*   sends, isAnalyzing, aiAnalysis, mood                                   *)
(*   overlap    two requests have been in flight at once                    *)
(*   failed     some response was not ok                                    *)

\* setTimeout(..., 1000), in ticks
TimerDelay == 2

\* the lengths of the contents typed
FormContents == {0, 10, 49, 50, 51}

\* the tag the user adds by hand, and the theme the analysis finds
UserTag == 1
ThemeTag == 2

\* data.themes.slice(0, 3) of the analysis of a content: some contents have
\* no theme
ThemesOf(content) == IF content \in {49, 51} THEN {ThemeTag} ELSE {}

\* clearTimeout(analysisDebounceTimerRef.current) and the reset of the ref
Cleared(f) ==
  [f EXCEPT !.pending = {t \in f.pending : <<t.id>> # f.ref}, !.ref = <<>>]

NewTimerId(f) == CHOOSE i \in 1..(Cardinality(f.pending) + 1) : \A t \in f.pending : t.id # i

\* the effect runs again, a dependency having changed (cause): the cleanup
\* the last run returned, then the body
useEffect_NoCleanup(f, cause) ==
  IF ~f.enabled \/ f.content < 50 THEN [f EXCEPT !.cleanup = FALSE]
  ELSE [f EXCEPT !.pending = f.pending \cup {[id |-> NewTimerId(f), left |-> TimerDelay,
                                              tags |-> f.selectedTags, cause |-> cause]},
                 !.ref = <<NewTimerId(f)>>,
                 !.cleanup = TRUE]

useEffect(f, cause) ==
  LET c == IF f.cleanup THEN Cleared(f) ELSE f
      d == Cleared(c)
  IN  IF ~c.enabled \/ c.content < 50 THEN [c EXCEPT !.cleanup = FALSE]
      ELSE [d EXCEPT !.pending = d.pending \cup {[id |-> NewTimerId(d), left |-> TimerDelay,
                                                  tags |-> d.selectedTags, cause |-> cause]},
                     !.ref = <<NewTimerId(d)>>,
                     !.cleanup = TRUE]

\* analyzeContent() as created by a render whose selectedTags were selected,
\* up to its fetch
analyzeContent(f, selected, by, cause) ==
  IF f.content < 10 THEN f
  ELSE [f EXCEPT !.isAnalyzing = TRUE,
                 !.sends = f.sends + 1,
                 !.overlap = f.overlap \/ f.inflight # {},
                 !.inflight = f.inflight \cup {[n |-> f.sends + 1, content |-> f.content,
                                                tags |-> selected, by |-> by, cause |-> cause]}]

\* analyzeContent() from the response on: r is the request, ok says whether
\* response.ok
Responded(f, r, ok) ==
  LET g == [f EXCEPT !.inflight = f.inflight \ {r}, !.isAnalyzing = FALSE,
                     !.failed = f.failed \/ ~ok]
      shown == [g EXCEPT !.aiAnalysis = <<[n |-> r.n, content |-> r.content]>>,
                         !.mood = <<[n |-> r.n, content |-> r.content]>>]
  IN  IF ~ok THEN g
      ELSE IF r.tags = {} /\ ThemesOf(r.content) # {}
      THEN useEffect([shown EXCEPT !.selectedTags = ThemesOf(r.content)], "result")
      ELSE shown

SetForm(f) ==
  /\ form' = <<f>>
  /\ UNCHANGED <<analysisVars, categories, users, journals, tags, links, reply, calls>>

\* the user types: the content becomes another one
ChangeContent(content) ==
  /\ content # form[1].content
  /\ SetForm(useEffect([form[1] EXCEPT !.content = content, !.since = 0], "content"))

\* the user flips the auto-analyse switch
ToggleAutoAnalyze ==
  SetForm(useEffect([form[1] EXCEPT !.enabled = ~form[1].enabled], "switch"))

\* handleAddTag and handleRemoveTag with the tag of the user
ChangeTags ==
  SetForm(useEffect([form[1] EXCEPT !.selectedTags =
                       IF UserTag \in form[1].selectedTags
                       THEN form[1].selectedTags \ {UserTag}
                       ELSE form[1].selectedTags \cup {UserTag}], "tags"))

\* a timer is due: its callback calls analyzeContent and resets the ref
TimerFires(t) ==
  /\ t.left = 0
  /\ form[1].sends < MaxSends
  /\ SetForm(analyzeContent([form[1] EXCEPT !.pending = form[1].pending \ {t},
                                            !.ref = <<>>], t.tags, "timer", t.cause))

\* the button "Analyze now", disabled while isAnalyzing and below 10 characters
ClickAnalyze ==
  /\ ~form[1].isAnalyzing
  /\ form[1].content >= 10
  /\ form[1].sends < MaxSends
  /\ SetForm(analyzeContent(form[1], form[1].selectedTags, "button", "click"))

\* the response to a request arrives
Respond(r, ok) == SetForm(Responded(form[1], r, ok))

\* half a second passes
Tick ==
  /\ \/ form[1].since < TimerDelay
     \/ \E t \in form[1].pending : t.left > 0
  /\ SetForm([form[1] EXCEPT
                !.since = Min(form[1].since + 1, TimerDelay),
                !.pending = {[t EXCEPT !.left = IF t.left > 0 THEN t.left - 1 ELSE 0] :
                               t \in form[1].pending}])

\* the page as it is first shown: empty content, auto-analyse on, no tags
InitForm ==
  /\ form = <<[content |-> 0, enabled |-> TRUE, selectedTags |-> {}, pending |-> {},
               ref |-> <<>>, cleanup |-> FALSE, since |-> TimerDelay, inflight |-> {},
               sends |-> 0, isAnalyzing |-> FALSE, aiAnalysis |-> <<>>, mood |-> <<>>,
               overlap |-> FALSE, failed |-> FALSE]>>
  /\ users = {}
  /\ journals = {}
  /\ tags = {}
  /\ links = {}
  /\ categories = <<>>
  /\ reply = <<>>
  /\ calls = <<>>
  /\ text = <<>>
  /\ sentiment = <<>>
  /\ themes = <<>>
  /\ suggestions = <<>>
  /\ request = <<>>
  /\ response = <<>>
  /\ io = <<>>
  /\ again = <<>>
  /\ tally = <<>>

NextForm ==
  \/ \E content \in FormContents : ChangeContent(content)
  \/ ToggleAutoAnalyze
  \/ ChangeTags
  \/ \E t \in form[1].pending : TimerFires(t)
  \/ ClickAnalyze
  \/ \E r \in form[1].inflight, ok \in BOOLEAN : Respond(r, ok)
  \/ Tick

SpecForm == InitForm /\ [][NextForm]_vars

\* at most one timer is pending, it is the one of the ref, and it stands only
\* while auto-analyse is on and the content has at least 50 characters, not to
\* fire before a second has passed since the content changed
OneTimerPending ==
  /\ Cardinality(form[1].pending) <= 1
  /\ \A t \in form[1].pending :
        /\ form[1].ref = <<t.id>>
        /\ form[1].enabled
        /\ form[1].content >= 50
        /\ t.left + form[1].since >= TimerDelay

\* the requests this step sends
SentNow == {r \in form'[1].inflight : r.n > form[1].sends}

\* the page, as the step finds it, has auto-analyse on, at least 50 characters
\* and a content unchanged for a second
Debounced ==
  form[1].enabled /\ form[1].content >= 50 /\ form[1].since >= TimerDelay

\* C28 as stated: at most one auto-analysis timer is pending at any time, and
\* no analysis request is sent while the content is shorter than 50
\* characters, while auto-analyse is off, or less than a second after the last
\* change of the content.
C28_NoRequestBeforeDebounce ==
  /\ [](form # <<>> => OneTimerPending)
  /\ [][(form # <<>> /\ SentNow # {}) => Debounced]_vars

\* C28 amended: the same, of the requests the timer sends; the button "Analyze
\* now" sends a request at once for any content of at least 10 characters,
\* whatever the switch and the time since the last change.
C28_NoTimerRequestBeforeDebounce ==
  /\ [](form # <<>> => OneTimerPending)
  /\ [][form # <<>> =>
          \A r \in SentNow :
            /\ r.by = "timer" => Debounced
            /\ r.by = "button" => form[1].content >= 10]_vars

\* C28 witness: the timer has sent a request, the content was changed since,
\* and the timer scheduled for the new content is pending.
C28_Witness ==
  /\ form # <<>>
  /\ \E r \in form[1].inflight : r.by = "timer" /\ r.content # form[1].content
  /\ \E t \in form[1].pending : t.cause = "content" /\ t.left < TimerDelay

\* C29: once the content has stayed unchanged for a second (auto-analyse on, at
\* least 50 characters), exactly one analysis request is sent for it: applying
\* the analysis result, the automatic tag suggestion included, never schedules
\* a further request while the content stays unchanged -- no timer is pending,
\* and no request was sent, because a result was applied.
C29_ResultSchedulesNoRequest ==
  form # <<>>
    => /\ \A t \in form[1].pending : t.cause # "result"
       /\ \A r \in form[1].inflight : r.cause # "result"

\* the part of C29 that fails last: a second request for the same content,
\* sent by the timer the tag suggestion scheduled
C29_NoSecondRequestFromResult ==
  form # <<>> => \A r \in form[1].inflight : r.cause # "result"

\* every request sent has been answered with response.ok, two of them having
\* been in flight at once
BothArrived ==
  /\ form # <<>>
  /\ form[1].overlap
  /\ form[1].inflight = {}
  /\ ~form[1].failed

\* C30: when two analysis requests are in flight at once, after both responses
\* have arrived the analysis displayed and the mood set on the form are those
\* of the request sent last, whatever the order the responses arrive in.
C30_LastSentIsShown ==
  BothArrived
    => /\ form[1].aiAnalysis # <<>> /\ form[1].aiAnalysis[1].n = form[1].sends
       /\ form[1].mood # <<>> /\ form[1].mood[1].n = form[1].sends

\* what the page does show: the analysis and the mood of one and the same
\* answered request, the one whose response arrived last
C30_ShownIsOneAnsweredRequest ==
  (form # <<>> /\ form[1].aiAnalysis # <<>>)
    => /\ form[1].mood = form[1].aiAnalysis
       /\ form[1].aiAnalysis[1].n \in 1..form[1].sends
       /\ \A r \in form[1].inflight : r.n # form[1].aiAnalysis[1].n

\* the state C30 excludes: both responses have arrived, the content is the one
\* of the second request, and the page shows the analysis of the first
StaleAnalysisShown ==
  /\ BothArrived
  /\ form[1].sends = 2
  /\ form[1].aiAnalysis = <<[n |-> 1, content |-> 50]>>
  /\ form[1].mood = <<[n |-> 1, content |-> 50]>>
  /\ form[1].content = 51

====
